---- MODULE Spec2Model ----
(***************************************************************************)
(* Arch Soundpad (src/soundpad_app.py): the audio routing graph manager    *)
(* (AudioRouter), the chord parser and the X11 global hotkey engine        *)
(* (GlobalHotkeyManager) and the push-to-talk state machine of SoundpadApp.*)
(*                                                                         *)
(* Text is modelled as a sequence of one-character strings, so that the    *)
(* parser's strip / split / lower steps are computed, not assumed.         *)
(***************************************************************************)
EXTENDS Integers, Sequences, FiniteSets, TLC

(***************************************************************************)
(* Bounds of the model.                                                    *)
(***************************************************************************)
\* the most modifier tokens a typed chord text carries in the codec check
MaxMods == 2

(***************************************************************************)
(* Characters and Python's str helpers.                                    *)
(***************************************************************************)
UpperChars ==
    <<"A","B","C","D","E","F","G","H","I","J","K","L","M",
      "N","O","P","Q","R","S","T","U","V","W","X","Y","Z">>

LowerChars ==
    <<"a","b","c","d","e","f","g","h","i","j","k","l","m",
      "n","o","p","q","r","s","t","u","v","w","x","y","z">>

Digits == {"0","1","2","3","4","5","6","7","8","9"}

\* str.lower() on one character
LowerChar(c) ==
    IF \E i \in 1..Len(UpperChars) : UpperChars[i] = c
    THEN LowerChars[CHOOSE i \in 1..Len(UpperChars) : UpperChars[i] = c]
    ELSE c

\* str.upper() on one character
UpperChar(c) ==
    IF \E i \in 1..Len(LowerChars) : LowerChars[i] = c
    THEN UpperChars[CHOOSE i \in 1..Len(LowerChars) : LowerChars[i] = c]
    ELSE c

\* str.lower()
Lower(s) == [i \in 1..Len(s) |-> LowerChar(s[i])]

\* str.upper()
Upper(s) == [i \in 1..Len(s) |-> UpperChar(s[i])]

IsSpace(c) == c \in {" ", "\t"}

\* str.strip()
RECURSIVE Strip(_)
Strip(s) ==
    IF s = <<>> THEN <<>>
    ELSE IF IsSpace(s[1]) THEN Strip(Tail(s))
    ELSE IF IsSpace(s[Len(s)]) THEN Strip(SubSeq(s, 1, Len(s) - 1))
    ELSE s

\* str.split("+")
RECURSIVE SplitPlus(_)
SplitPlus(s) ==
    IF \A i \in 1..Len(s) : s[i] # "+" THEN <<s>>
    ELSE LET i == CHOOSE k \in 1..Len(s) :
                      s[k] = "+" /\ \A j \in 1..(k - 1) : s[j] # "+"
         IN  <<SubSeq(s, 1, i - 1)>> \o SplitPlus(SubSeq(s, i + 1, Len(s)))

\* sep.join(parts)
RECURSIVE Join(_, _)
Join(parts, sep) ==
    IF parts = <<>> THEN <<>>
    ELSE IF Len(parts) = 1 THEN parts[1]
    ELSE parts[1] \o sep \o Join(Tail(parts), sep)

\* [p.strip() for p in raw.split("+") if p.strip()]
RECURSIVE StripNonEmpty(_)
StripNonEmpty(parts) ==
    IF parts = <<>> THEN <<>>
    ELSE LET p == Strip(parts[1])
         IN  (IF p = <<>> THEN <<>> ELSE <<p>>) \o StripNonEmpty(Tail(parts))

\* str.isdigit(): non-empty and all digits
IsDigit(s) == s # <<>> /\ \A i \in 1..Len(s) : s[i] \in Digits

(***************************************************************************)
(* Modifier words.                                                         *)
(***************************************************************************)
W_ctrl    == <<"c","t","r","l">>
W_control == <<"c","o","n","t","r","o","l">>
W_alt     == <<"a","l","t">>
W_shift   == <<"s","h","i","f","t">>
W_super   == <<"s","u","p","e","r">>
W_win     == <<"w","i","n">>
W_mod4    == <<"m","o","d","4">>

\* the value Python's None stands for in a parse result
NoParse == [ok |-> FALSE, mods |-> {}, key |-> <<>>]

(***************************************************************************)
(* GlobalHotkeyManager._hotkey_to_parts: (mods, key_name) or None.         *)
(***************************************************************************)
\* the modifier name a token adds to mods, "" for an unrecognized token
ModName(tok) ==
    LET lower == Lower(tok)
    IN  IF lower \in {W_ctrl, W_control} THEN "control"
        ELSE IF lower = W_alt THEN "alt"
        ELSE IF lower = W_shift THEN "shift"
        ELSE IF lower \in {W_super, W_win, W_mod4} THEN "super"
        ELSE ""

\* a plausible slip: the modifier words are compared without lower-casing
hotkey_to_parts_case_sensitive(hotkey_text) ==
    LET raw   == Strip(hotkey_text)
        parts == StripNonEmpty(SplitPlus(raw))
        name(tok) == IF tok \in {W_ctrl, W_control} THEN "control"
                     ELSE IF tok = W_alt THEN "alt"
                     ELSE IF tok = W_shift THEN "shift"
                     ELSE IF tok \in {W_super, W_win, W_mod4} THEN "super"
                     ELSE ""
    IN  IF raw = <<>> \/ parts = <<>> THEN NoParse
        ELSE IF \E i \in 1..(Len(parts) - 1) : name(parts[i]) = "" THEN NoParse
        ELSE [ok   |-> TRUE,
              mods |-> {name(parts[i]) : i \in 1..(Len(parts) - 1)},
              key  |-> Lower(parts[Len(parts)])]

\* a plausible slip: an unrecognized modifier token is skipped
hotkey_to_parts_partial(hotkey_text) ==
    LET raw   == Strip(hotkey_text)
        parts == StripNonEmpty(SplitPlus(raw))
    IN  IF raw = <<>> THEN NoParse
        ELSE IF parts = <<>> THEN NoParse
        ELSE [ok   |-> TRUE,
              mods |-> {ModName(parts[i]) : i \in 1..(Len(parts) - 1)} \ {""},
              key  |-> Lower(parts[Len(parts)])]

hotkey_to_parts(hotkey_text) ==
    LET raw   == Strip(hotkey_text)
        parts == StripNonEmpty(SplitPlus(raw))
    IN  IF raw = <<>> THEN NoParse
        ELSE IF parts = <<>> THEN NoParse
        ELSE IF \E i \in 1..(Len(parts) - 1) : ModName(parts[i]) = "" THEN NoParse
        ELSE [ok   |-> TRUE,
              mods |-> {ModName(parts[i]) : i \in 1..(Len(parts) - 1)},
              key  |-> Lower(parts[Len(parts)])]

(***************************************************************************)
(* GlobalHotkeyManager._modifier_mask, over the X11 modifier bits.         *)
(***************************************************************************)
ShiftMask   == 1
LockMask    == 2
ControlMask == 4
Mod1Mask    == 8
Mod2Mask    == 16
Mod4Mask    == 64

\* a plausible slip: the shift modifier is left out of the mask
modifier_mask_no_shift(mods) ==
      (IF "control" \in mods THEN ControlMask ELSE 0)
    + (IF "alt" \in mods THEN Mod1Mask ELSE 0)
    + (IF "super" \in mods THEN Mod4Mask ELSE 0)

modifier_mask(mods) ==
      (IF "control" \in mods THEN ControlMask ELSE 0)
    + (IF "alt" \in mods THEN Mod1Mask ELSE 0)
    + (IF "shift" \in mods THEN ShiftMask ELSE 0)
    + (IF "super" \in mods THEN Mod4Mask ELSE 0)

(***************************************************************************)
(* SoundpadApp._hotkey_to_tk_sequence: the Tk event sequence of a chord    *)
(* text, or None (here the empty sequence).                                *)
(***************************************************************************)
TkModName(tok) ==
    LET lower == Lower(tok)
    IN  IF lower \in {W_ctrl, W_control} THEN <<"C","o","n","t","r","o","l">>
        ELSE IF lower = W_alt THEN <<"A","l","t">>
        ELSE IF lower = W_shift THEN <<"S","h","i","f","t">>
        ELSE IF lower \in {W_super, W_win, W_mod4} THEN <<"M","o","d","4">>
        ELSE <<>>

\* a plausible slip: only the short spelling of the control modifier is known
hotkey_to_tk_sequence_ctrl_only(hotkey_text) ==
    LET raw      == Strip(hotkey_text)
        parts    == StripNonEmpty(SplitPlus(raw))
        key_part == parts[Len(parts)]
        name(tok) == IF Lower(tok) = W_control THEN <<>> ELSE TkModName(tok)
        mods     == [i \in 1..(Len(parts) - 1) |-> name(parts[i])]
        key_name == IF Len(key_part) = 1 THEN Lower(key_part) ELSE key_part
        chunks   == mods \o << <<"K","e","y","-">> \o key_name >>
    IN  IF raw = <<>> THEN <<>>
        ELSE IF parts = <<>> THEN <<>>
        ELSE IF \E i \in 1..(Len(parts) - 1) : name(parts[i]) = <<>> THEN <<>>
        ELSE <<"<">> \o Join(chunks, <<"-">>) \o <<">">>

hotkey_to_tk_sequence(hotkey_text) ==
    LET raw      == Strip(hotkey_text)
        parts    == StripNonEmpty(SplitPlus(raw))
        key_part == parts[Len(parts)]
        mods     == [i \in 1..(Len(parts) - 1) |-> TkModName(parts[i])]
        key_name == IF Len(key_part) = 1 THEN Lower(key_part) ELSE key_part
        chunks   == mods \o << <<"K","e","y","-">> \o key_name >>
    IN  IF raw = <<>> THEN <<>>
        ELSE IF parts = <<>> THEN <<>>
        ELSE IF \E i \in 1..(Len(parts) - 1) : TkModName(parts[i]) = <<>> THEN <<>>
        ELSE <<"<">> \o Join(chunks, <<"-">>) \o <<">">>

(***************************************************************************)
(* The sound server as pactl shows it: the module list, in load order.     *)
(* A module is [id, name, args]; args is the argument string as its        *)
(* space-separated tokens, each token a <<key, value>> pair "key=value".   *)
(***************************************************************************)
SINK_NAME   == "soundpad_sink"
SOURCE_NAME == "soundpad_mic"
SINK_MONITOR == "soundpad_sink.monitor"

\* the real input devices a machine may have
RealSources == {"mic1", "mic2"}

\* <<p, v>>: p is a proper prefix of the device name v, among the names used
ProperPrefixes == {<<SINK_NAME, SINK_MONITOR>>}

\* the text "key=value" of pat occurs in the text of token tok
TokenContains(tok, pat) ==
    /\ tok[1] = pat[1]
    /\ (tok[2] = pat[2] \/ <<pat[2], tok[2]>> \in ProperPrefixes)

\* Python's `arg_token in mod_args`
ArgsContain(args, pat) == \E i \in 1..Len(args) : TokenContains(args[i], pat)

NullSinkArgs ==
    << <<"sink_name", SINK_NAME>>,
       <<"sink_properties", "device.description=SoundpadSink">> >>

RemapSourceArgs ==
    << <<"master", SINK_MONITOR>>,
       <<"source_name", SOURCE_NAME>>,
       <<"source_properties", "device.description=SoundpadMic">> >>

MonitorLoopArgs ==
    << <<"source", SINK_MONITOR>>,
       <<"sink", "@DEFAULT_SINK@">>,
       <<"latency_msec", "30">> >>

MicLoopArgs(source_name) ==
    << <<"source", source_name>>,
       <<"sink", SINK_NAME>>,
       <<"latency_msec", "20">> >>

\* the first of the indices in S, 0 if there is none: the line a scan of
\* the listing stops at
FirstIndex(S) ==
    IF S = {} THEN 0 ELSE CHOOSE i \in S : \A j \in S : i <= j

RemoveAt(ms, i) == SubSeq(ms, 1, i - 1) \o SubSeq(ms, i + 1, Len(ms))

\* a plausible slip: every loopback is taken for the mic passthrough
IsAnyLoop(m) == m.name = "module-loopback"

\* what a module is in the device graph
IsMicLoop(m) ==
    /\ m.name = "module-loopback"
    /\ ArgsContain(m.args, <<"sink", SINK_NAME>>)
    /\ ~ArgsContain(m.args, <<"source", SINK_MONITOR>>)

IsMonitorLoop(m) ==
    /\ m.name = "module-loopback"
    /\ ArgsContain(m.args, <<"source", SINK_MONITOR>>)

IsVirtualSink(m) ==
    m.name = "module-null-sink" /\ ArgsContain(m.args, <<"sink_name", SINK_NAME>>)

IsVirtualSource(m) ==
    m.name = "module-remap-source" /\ ArgsContain(m.args, <<"source_name", SOURCE_NAME>>)

\* the positions of the modules of each kind in a module list
MicLoops(ms) == {i \in 1..Len(ms) : IsMicLoop(ms[i])}

MonitorLoops(ms) == {i \in 1..Len(ms) : IsMonitorLoop(ms[i])}

VirtualSinks(ms) == {i \in 1..Len(ms) : IsVirtualSink(ms[i])}

VirtualSources(ms) == {i \in 1..Len(ms) : IsVirtualSource(ms[i])}

(***************************************************************************)
(* AudioRouter.  An operation works on a world w = [modules, next_id,      *)
(* router, cmds]: the server's module list and next module id, the         *)
(* router's remembered ids (0 for None) and the log of the pactl commands  *)
(* issued.  `present` tells whether the pactl executable exists: without   *)
(* it subprocess.run raises, and the operation ends "raise"; otherwise     *)
(* each command's exit code is an input (TRUE for 0).                      *)
(***************************************************************************)
NoRouter ==
    [sink_module_id |-> 0, source_module_id |-> 0,
     monitor_module_id |-> 0, mic_loop_module_id |-> 0]

CmdList      == [verb |-> "list-modules", what |-> "", id |-> 0]
CmdLoad(n)   == [verb |-> "load-module", what |-> n, id |-> 0]
CmdUnload(i) == [verb |-> "unload-module", what |-> "", id |-> i]
CmdMute      == [verb |-> "set-source-mute", what |-> SOURCE_NAME, id |-> 0]
CmdSources   == [verb |-> "list-sources", what |-> "", id |-> 0]
CmdInfo      == [verb |-> "info", what |-> "", id |-> 0]

Logged(w, c) == [w EXCEPT !.cmds = Append(@, c)]

\* pactl load-module exiting 0: the module is appended under a fresh id
Loaded(w, name, args) ==
    [w EXCEPT !.modules = Append(@, [id |-> w.next_id, name |-> name, args |-> args]),
              !.next_id = @ + 1]

HasModule(w, id) == \E i \in 1..Len(w.modules) : w.modules[i].id = id

\* pactl unload-module exits 0 only for a loaded module, which it removes
UnloadOk(w, id, exit0) == exit0 /\ HasModule(w, id)

Unloaded(w, id) ==
    [w EXCEPT !.modules =
        RemoveAt(@, CHOOSE i \in 1..Len(w.modules) : w.modules[i].id = id)]

\* _module_id_by_name's scan of a successful listing
ScanModules(ms, module_name, arg_token) ==
    LET hits == {k \in 1..Len(ms) :
                    ms[k].name = module_name /\ ArgsContain(ms[k].args, arg_token)}
        i == FirstIndex(hits)
    IN  IF i = 0 THEN 0 ELSE ms[i].id

\* AudioRouter._module_id_by_name: None (0) when the listing fails
module_id_by_name(ms, listed, module_name, arg_token) ==
    IF ~listed THEN 0 ELSE ScanModules(ms, module_name, arg_token)

\* AudioRouter._find_mic_loop_module: None (0) when the listing fails
find_mic_loop_module(ms, listed) ==
    LET i == FirstIndex(MicLoops(ms))
    IN  IF ~listed \/ i = 0 THEN 0 ELSE ms[i].id

\* the outcome of an operation: the world it leaves and how it ended
Ended(w, status) == [w |-> w, status |-> status]

\* exit codes of the commands one operation may issue (TRUE: exit code 0)
Exits == [list : BOOLEAN, unload : BOOLEAN, load : BOOLEAN]
\* the same for an operation that loads nothing
ExitsNoLoad == {o \in Exits : o.load}
Exits2 == [list1 : BOOLEAN, load1 : BOOLEAN, list2 : BOOLEAN, load2 : BOOLEAN]

\* AudioRouter.ensure_virtual_mic
ensure_virtual_mic(w, present, o) ==
    LET w1  == Logged(w, CmdList)
        sid == module_id_by_name(w.modules, o.list1, "module-null-sink",
                                 <<"sink_name", SINK_NAME>>)
        w2  == [w1 EXCEPT !.router.sink_module_id = sid]
        w3  == IF sid # 0 THEN w2
               ELSE [Loaded(Logged(w2, CmdLoad("module-null-sink")),
                            "module-null-sink", NullSinkArgs)
                       EXCEPT !.router.sink_module_id = w2.next_id]
        w4  == Logged(w3, CmdList)
        rid == module_id_by_name(w3.modules, o.list2, "module-remap-source",
                                 <<"source_name", SOURCE_NAME>>)
        w5  == [w4 EXCEPT !.router.source_module_id = rid]
        w6  == [Loaded(Logged(w5, CmdLoad("module-remap-source")),
                       "module-remap-source", RemapSourceArgs)
                  EXCEPT !.router.source_module_id = w5.next_id]
    IN  IF ~present THEN Ended(w1, "raise")
        ELSE IF sid = 0 /\ ~o.load1
             THEN Ended(Logged(w2, CmdLoad("module-null-sink")), "fail")
        ELSE IF rid # 0 THEN Ended(w5, "ok")
        ELSE IF ~o.load2
             THEN Ended(Logged(w5, CmdLoad("module-remap-source")), "fail")
        ELSE Ended(w6, "ok")

\* AudioRouter.ensure_local_monitor
ensure_local_monitor(w, present, o) ==
    LET w1  == Logged(w, CmdList)
        mid == module_id_by_name(w.modules, o.list, "module-loopback",
                                 <<"source", SINK_MONITOR>>)
        w2  == [w1 EXCEPT !.router.monitor_module_id = mid]
        w3  == Logged(w2, CmdLoad("module-loopback"))
    IN  IF ~present THEN Ended(w1, "raise")
        ELSE IF mid # 0 THEN Ended(w2, "ok")
        ELSE IF ~o.load THEN Ended(w3, "fail")
        ELSE Ended([Loaded(w3, "module-loopback", MonitorLoopArgs)
                      EXCEPT !.router.monitor_module_id = w3.next_id], "ok")

\* a plausible slip: the remembered id is dropped before the unload's exit
\* code is looked at
unload_monitor_forgets(w, present, o) ==
    LET id == w.router.monitor_module_id
        w1 == [Logged(w, CmdUnload(id)) EXCEPT !.router.monitor_module_id = 0]
    IN  IF id = 0 THEN Ended(w, "ok")
        ELSE IF ~present THEN Ended(w1, "raise")
        ELSE IF ~UnloadOk(w1, id, o.unload) THEN Ended(w1, "fail")
        ELSE Ended(Unloaded(w1, id), "ok")

\* AudioRouter.unload_monitor
unload_monitor(w, present, o) ==
    LET id == w.router.monitor_module_id
        w1 == Logged(w, CmdUnload(id))
    IN  IF id = 0 THEN Ended(w, "ok")
        ELSE IF ~present THEN Ended(w1, "raise")
        ELSE IF ~UnloadOk(w1, id, o.unload) THEN Ended(w1, "fail")
        ELSE Ended([Unloaded(w1, id) EXCEPT !.router.monitor_module_id = 0], "ok")

\* AudioRouter.set_mic_mute
set_mic_mute(w, present, exit0) ==
    LET w1 == Logged(w, CmdMute)
    IN  IF ~present THEN Ended(w1, "raise")
        ELSE IF ~exit0 THEN Ended(w1, "fail")
        ELSE Ended(w1, "ok")

\* a plausible slip: the new loopback is loaded although the unload failed
connect_load_anyway(w, present, source_name, o) ==
    LET w1      == Logged(w, CmdList)
        current == find_mic_loop_module(w.modules, o.list)
        w2      == Logged(w1, CmdUnload(current))
        w3      == IF current = 0 THEN w1
                   ELSE IF ~UnloadOk(w2, current, o.unload) THEN w2
                   ELSE [Unloaded(w2, current) EXCEPT !.router.mic_loop_module_id = 0]
        w4      == Logged(w3, CmdLoad("module-loopback"))
    IN  IF ~present THEN Ended(w1, "raise")
        ELSE IF ~o.load THEN Ended(w4, "fail")
        ELSE Ended([Loaded(w4, "module-loopback", MicLoopArgs(source_name))
                      EXCEPT !.router.mic_loop_module_id = w4.next_id], "ok")

\* AudioRouter.connect_input_source_to_soundpad
connect_input_source_to_soundpad(w, present, source_name, o) ==
    LET w1      == Logged(w, CmdList)
        current == find_mic_loop_module(w.modules, o.list)
        w2      == Logged(w1, CmdUnload(current))
        w3      == IF current = 0 THEN w1
                   ELSE [Unloaded(w2, current) EXCEPT !.router.mic_loop_module_id = 0]
        w4      == Logged(w3, CmdLoad("module-loopback"))
    IN  IF ~present THEN Ended(w1, "raise")
        ELSE IF current # 0 /\ ~UnloadOk(w2, current, o.unload) THEN Ended(w2, "fail")
        ELSE IF ~o.load THEN Ended(w4, "fail")
        ELSE Ended([Loaded(w4, "module-loopback", MicLoopArgs(source_name))
                      EXCEPT !.router.mic_loop_module_id = w4.next_id], "ok")

\* AudioRouter.disconnect_input_source_from_soundpad
disconnect_input_source_from_soundpad(w, present, o) ==
    LET w1        == Logged(w, CmdList)
        module_id == find_mic_loop_module(w.modules, o.list)
        w2        == Logged(w1, CmdUnload(module_id))
    IN  IF ~present THEN Ended(w1, "raise")
        ELSE IF module_id = 0 THEN Ended(w1, "ok")
        ELSE IF ~UnloadOk(w2, module_id, o.unload) THEN Ended(w2, "fail")
        ELSE Ended([Unloaded(w2, module_id) EXCEPT !.router.mic_loop_module_id = 0], "ok")

\* the source names `pactl list short sources` prints: the real devices, the
\* virtual source when its module is loaded, and every sink's monitor
ServerSources(w, devices) ==
    devices
    \o (IF VirtualSinks(w.modules) # {} THEN <<SINK_MONITOR>> ELSE <<>>)
    \o (IF VirtualSources(w.modules) # {} THEN <<SOURCE_NAME>> ELSE <<>>)

\* str.endswith(".monitor"), over the names used
IsMonitorName(n) == n = SINK_MONITOR

\* AudioRouter.list_input_sources: [] when the command fails
list_input_sources(w, present, devices, exit0) ==
    LET all   == ServerSources(w, devices)
        keep(n) == ~(n = SOURCE_NAME \/ IsMonitorName(n))
    IN  [w      |-> Logged(w, CmdSources),
         status |-> IF present THEN "ok" ELSE "raise",
         names  |-> IF present /\ exit0 THEN SelectSeq(all, keep) ELSE <<>>]

\* AudioRouter.get_default_source: "" when the command fails
get_default_source(w, present, default, exit0) ==
    [w      |-> Logged(w, CmdInfo),
     status |-> IF present THEN "ok" ELSE "raise",
     name   |-> IF present /\ exit0 THEN default ELSE ""]

(***************************************************************************)
(* GlobalHotkeyManager: key symbols, grabs and the binding table.          *)
(***************************************************************************)
\* bitwise & of two modifier states
RECURSIVE BitAnd(_, _)
BitAnd(a, b) ==
    IF a = 0 \/ b = 0 THEN 0
    ELSE (a % 2) * (b % 2) + 2 * BitAnd(a \div 2, b \div 2)

\* the keyboard mapping of the X display: the key symbol names XK knows
\* (case-sensitive) that the keyboard has a key for, with its key code
Keymap ==
    { << <<"1">>, 10 >>, << <<"3">>, 12 >>, << <<"m">>, 58 >>,
      << <<"b","a","c","k","s","l","a","s","h">>, 51 >>,
      << <<"m","i","n","u","s">>, 20 >>,
      << <<"F","1">>, 67 >>,
      << <<"R","e","t","u","r","n">>, 36 >> }

\* the grave accent character (U+0060), which a string cannot hold here
GraveChar == "U+0060"

\* the special-character table of _keysym_to_keycode
SpecialKey(key_name) ==
    IF key_name = <<"\\">> THEN <<"b","a","c","k","s","l","a","s","h">>
    ELSE IF key_name = <<"/">> THEN <<"s","l","a","s","h">>
    ELSE IF key_name = <<"-">> THEN <<"m","i","n","u","s">>
    ELSE IF key_name = <<"=">> THEN <<"e","q","u","a","l">>
    ELSE IF key_name = <<GraveChar>> THEN <<"g","r","a","v","e">>
    ELSE key_name

\* the name _keysym_to_keycode hands to XK.string_to_keysym: the special
\* characters translated, a function key in upper case
keysym_name(key_name) ==
    LET fkey(k1) == IF k1 # <<>> /\ k1[1] = "f" /\ IsDigit(Tail(k1)) THEN Upper(k1) ELSE k1
    IN  fkey(SpecialKey(key_name))

\* GlobalHotkeyManager._keysym_to_keycode: the key code, None (0) if unknown
keysym_to_keycode(key_name) ==
    LET lookup(k2) ==
            IF \E e \in Keymap : e[1] = k2
            THEN (CHOOSE e \in Keymap : e[1] = k2)[2]
            ELSE 0
    IN  lookup(keysym_name(key_name))

\* the four lock-state variants register() grabs, in its order
LockVariants == <<0, LockMask, Mod2Mask, LockMask + Mod2Mask>>

\* actions of the binding table
ClipAction(idx) == [kind |-> "clip", idx |-> idx]
StopAction == [kind |-> "__stop__", idx |-> -1]
PttAction == [kind |-> "__ptt__", idx |-> -1]

\* the binding table is a set of [keycode, mask, action], one per (keycode, mask)
BindingSet(table, keycode, mask, action) ==
    {b \in table : ~(b.keycode = keycode /\ b.mask = mask)}
    \cup {[keycode |-> keycode, mask |-> mask, action |-> action]}

HasBinding(table, keycode, mask) ==
    \E b \in table : b.keycode = keycode /\ b.mask = mask

BindingGet(table, keycode, mask) ==
    (CHOOSE b \in table : b.keycode = keycode /\ b.mask = mask).action

\* a plausible slip: the first refused variant ends the chord's grabs
GrantedVariants_abort(keycode, base_mask, foreign) ==
    LET all == [i \in 1..Len(LockVariants) |-> <<keycode, base_mask + LockVariants[i]>>]
        bad == {i \in 1..Len(all) : all[i] \in foreign}
    IN  IF bad = {} THEN all
        ELSE SubSeq(all, 1, (CHOOSE i \in bad : \A j \in bad : i <= j) - 1)

\* the grabs of one chord that the server grants: a variant another client
\* holds is refused (BadAccess) and skipped
GrantedVariants(keycode, base_mask, foreign) ==
    SelectSeq([i \in 1..Len(LockVariants) |-> <<keycode, base_mask + LockVariants[i]>>],
              LAMBDA g : g \notin foreign)

\* the loop body of register() for one (action, hotkey) entry;
\* acc = [registered, bindings, conflicts]
RegisterOne(acc, action, hotkey, foreign) ==
    LET \* grab_key for the variants, then the table entry or the conflict
        grab(keycode, base_mask, granted) ==
            IF keycode = 0
            THEN [acc EXCEPT !.conflicts = Append(@, hotkey)]
            ELSE IF granted # <<>>
                 THEN [acc EXCEPT !.registered = @ \o granted,
                                  !.bindings = BindingSet(@, keycode, base_mask, action)]
            ELSE [acc EXCEPT !.conflicts = Append(@, hotkey)]
        resolve(keycode, base_mask) ==
            grab(keycode, base_mask, GrantedVariants(keycode, base_mask, foreign))
        one(parsed) ==
            IF ~parsed.ok THEN acc
            ELSE resolve(keysym_to_keycode(parsed.key), modifier_mask(parsed.mods))
    IN  one(hotkey_to_parts(hotkey))

RECURSIVE RegisterAll(_, _, _)
RegisterAll(acc, entries, foreign) ==
    IF entries = <<>> THEN acc
    ELSE RegisterAll(RegisterOne(acc, entries[1].action, entries[1].hotkey, foreign),
                     Tail(entries), foreign)

\* a plausible slip: register() without _unregister_all(), the new grabs
\* added to the ones held
register_keeps_grabs(g, entries, foreign) ==
    IF ~g.running \/ g.display = "None"
    THEN [g |-> g, conflicts |-> <<>>]
    ELSE LET acc == RegisterAll([registered |-> <<>>, bindings |-> {}, conflicts |-> <<>>],
                                entries, foreign)
         IN  [g |-> [g EXCEPT !.registered = @ \o acc.registered,
                              !.bindings = acc.bindings],
              conflicts |-> acc.conflicts]

\* the calls to the X display one pass of register()'s loop makes for the
\* chord text `hotkey`: the key-code lookup, then the four grabs
BackendCalls(hotkey) ==
    LET call(name, keycode, mask) ==
            [call |-> name, hotkey |-> hotkey, keycode |-> keycode, mask |-> mask]
        grabs(keycode, base_mask) ==
            IF keycode = 0 THEN <<>>
            ELSE [i \in 1..Len(LockVariants) |->
                     call("grab_key", keycode, base_mask + LockVariants[i])]
        one(parsed) ==
            IF ~parsed.ok THEN <<>>
            ELSE <<call("keysym_to_keycode", 0, 0)>>
                 \o grabs(keysym_to_keycode(parsed.key), modifier_mask(parsed.mods))
    IN  one(hotkey_to_parts(hotkey))

RECURSIVE RegisterBackend(_)
RegisterBackend(entries) ==
    IF entries = <<>> THEN <<>>
    ELSE BackendCalls(entries[1].hotkey) \o RegisterBackend(Tail(entries))

\* GlobalHotkeyManager.register on the engine g = [running, display,
\* registered, bindings]: the engine it leaves and the conflict list
register(g, entries, foreign) ==
    IF ~g.running \/ g.display = "None"
    THEN [g |-> g, conflicts |-> <<>>]
    ELSE LET acc == RegisterAll([registered |-> <<>>, bindings |-> {}, conflicts |-> <<>>],
                                entries, foreign)
         IN  [g |-> [g EXCEPT !.registered = acc.registered, !.bindings = acc.bindings],
              conflicts |-> acc.conflicts]

\* no register() call in progress
\* (entries: the argument; rest: the bindings the loop has still to visit;
\* conflicts: the list built so far, at the end the value returned; old: the
\* binding table when the call began; backend: the calls to the X display
\* the loop of a whole call made)
NoReg == [pc |-> "idle", entries |-> <<>>, rest |-> <<>>, conflicts |-> <<>>,
          old |-> {}, backend |-> <<>>]

(***************************************************************************)
(* State.                                                                  *)
(*   codec    the chord texts under test and what the codec made of them   *)
(*            (for the settings parser: the payload and what it returned)  *)
(*   env      the machine: pactl installed, python-xlib importable, the    *)
(*            real input devices and the server's default source           *)
(*   audio    the sound server's module list and next module id, and the   *)
(*            AudioRouter's remembered module ids                          *)
(*   xserver  the X server: grabs held by other clients, the key events    *)
(*            queued for this client, and the keys held down under a grab  *)
(*   engine   GlobalHotkeyManager's fields and its live poll threads       *)
(*   app      SoundpadApp's fields                                         *)
(*   after_queue  the Tk tasks scheduled with after(0, ...), oldest first  *)
(*   hist     what the last handler did (commands, calls, results)         *)
(*   reg      the foreground's position inside a register() call, where    *)
(*            the call is followed statement by statement                  *)
(***************************************************************************)
VARIABLES codec, env, audio, xserver, engine, app, after_queue, hist, reg

vars == <<codec, env, audio, xserver, engine, app, after_queue, hist, reg>>

(***************************************************************************)
(* The codec on typed chord texts.                                         *)
(***************************************************************************)
T_Ctrl    == <<"C","t","r","l">>
T_CONTROL == <<"C","O","N","T","R","O","L">>
T_alt     == <<"a","l","t">>
T_Shift   == <<"S","h","i","f","t">>
T_Win     == <<"W","i","n">>
T_mod4    == <<"m","o","d","4">>
T_Super   == <<" ","S","u","p","e","r">>
T_Hyper   == <<"H","y","p","e","r">>

\* modifier tokens as a user types them; Hyper is not a modifier word
ModTokens == {T_Ctrl, T_CONTROL, T_alt, T_Shift, T_Win, T_mod4, T_Super, T_Hyper}

\* base-key tokens as a user types them
KeyTokens == {<<"3">>, <<"M">>, <<"F","1">>}

\* sequences of at most n modifier tokens
RECURSIVE ModSeqs(_)
ModSeqs(n) ==
    IF n = 0 THEN {<<>>}
    ELSE ModSeqs(n - 1)
         \cup {Append(ms, t) : ms \in {q \in ModSeqs(n - 1) : Len(q) = n - 1},
                               t \in ModTokens}

Reverse(q) == [i \in 1..Len(q) |-> q[Len(q) + 1 - i]]

\* another word for the same modifier
Synonym(tok) ==
    LET lower == Lower(Strip(tok))
    IN  IF lower = W_ctrl THEN W_control
        ELSE IF lower = W_control THEN W_ctrl
        ELSE IF lower = W_super THEN W_win
        ELSE IF lower = W_win THEN W_mod4
        ELSE IF lower = W_mod4 THEN W_super
        ELSE tok

\* rewritings of a chord's modifier tokens that keep the set of modifiers
VariantKinds == {"reverse", "upper", "lower", "synonym", "repeat", "pad"}

Variant(ms, kind) ==
    CASE kind = "reverse" -> Reverse(ms)
      [] kind = "upper"   -> [i \in 1..Len(ms) |-> Upper(ms[i])]
      [] kind = "lower"   -> [i \in 1..Len(ms) |-> Lower(ms[i])]
      [] kind = "synonym" -> [i \in 1..Len(ms) |-> Synonym(ms[i])]
      [] kind = "repeat"  -> IF ms = <<>> THEN ms ELSE <<Synonym(ms[1])>> \o ms
      [] kind = "pad"     -> [i \in 1..Len(ms) |-> <<" ">> \o ms[i] \o <<" ">>]

ChordText(ms, key) == Join(ms \o <<key>>, <<"+">>)

NoCodec == [phase |-> "none", typedA |-> <<>>, typedB |-> <<>>,
            partsA |-> NoParse, partsB |-> NoParse, maskA |-> 0, maskB |-> 0,
            tk |-> <<>>, tk_parts |-> NoParse]

CodecInit ==
    \E ms \in ModSeqs(MaxMods), key \in KeyTokens, kind \in VariantKinds :
        codec = [NoCodec EXCEPT !.phase = "typed",
                                !.typedA = ChordText(ms, key),
                                !.typedB = ChordText(Variant(ms, kind), key)]

\* both texts go through _hotkey_to_parts and _modifier_mask
CodecParse ==
    /\ codec.phase = "typed"
    /\ LET a == hotkey_to_parts(codec.typedA)
           b == hotkey_to_parts(codec.typedB)
       IN  codec' = [codec EXCEPT !.phase = "parsed",
                                  !.partsA = a, !.partsB = b,
                                  !.maskA = modifier_mask(a.mods),
                                  !.maskB = modifier_mask(b.mods)]
    /\ UNCHANGED <<reg, env, audio, xserver, engine, app, after_queue, hist>>

\* the first text goes through _hotkey_to_tk_sequence, and the result is
\* parsed again as a chord text
CodecSerialize ==
    /\ codec.phase = "parsed"
    /\ LET tk == hotkey_to_tk_sequence(codec.typedA)
       IN  codec' = [codec EXCEPT !.phase = "serialized",
                                  !.tk = tk,
                                  !.tk_parts = hotkey_to_parts(tk)]
    /\ UNCHANGED <<reg, env, audio, xserver, engine, app, after_queue, hist>>

(***************************************************************************)
(* Bounds of the application model.                                        *)
(***************************************************************************)
\* clips in the active profile
NClips == 2
\* module ids the sound server hands out in one run
MaxModuleId == 4
\* key events queued for the client, and tasks queued for the foreground
MaxQueue == 2
\* key edges the X server generates for the client in one run
MaxEdges == 2
\* poll threads alive at once (a stop() whose join timed out leaves one behind)
MaxThreads == 2

(***************************************************************************)
(* Chord texts of the application.                                         *)
(***************************************************************************)
H_None       == <<>>
H_Alt1       == <<"A","l","t","+","1">>
H_Ctrl1      == <<"C","t","r","l","+","1">>
H_Control1   == <<"C","o","n","t","r","o","l","+","1">>
H_Alt3       == <<"A","l","t","+","3">>
H_ShiftAlt3  == <<"S","h","i","f","t","+","A","l","t","+","3">>
H_Hyper1     == <<"H","y","p","e","r","+","1">>
\* the reserved stop chord "Alt+\" of _register_global_hotkeys
H_Stop       == <<"A","l","t","+","\\">>
\* the default push-to-talk chord "Ctrl+Alt+M"
H_CtrlAltM   == <<"C","t","r","l","+","A","l","t","+","M">>

\* what a user types into the hotkey dialog
TypedTexts == {H_Alt1, H_Ctrl1, H_Control1, H_Alt3, H_ShiftAlt3, H_Hyper1}

(***************************************************************************)
(* GlobalHotkeyManager.start / stop on the engine                          *)
(* g = [running, display, registered, bindings, threads].                  *)
(***************************************************************************)
NoEngine == [running |-> FALSE, display |-> "None", registered |-> <<>>,
             bindings |-> {}, threads |-> 0]

\* a plausible slip: the failure path leaves the running flag set
start_keeps_running(g, xlib_available, opens) ==
    IF ~xlib_available \/ g.running THEN [g |-> g, result |-> FALSE]
    ELSE IF ~opens THEN [g |-> [g EXCEPT !.running = TRUE], result |-> FALSE]
    ELSE [g |-> [g EXCEPT !.display = "open", !.running = TRUE, !.threads = @ + 1],
          result |-> TRUE]

\* start(): `opens` tells whether xdisplay.Display() and screen().root succeed
start(g, xlib_available, opens) ==
    IF ~xlib_available \/ g.running THEN [g |-> g, result |-> FALSE]
    ELSE IF ~opens
         THEN [g |-> [g EXCEPT !.display = "None", !.running = FALSE], result |-> FALSE]
    ELSE [g |-> [g EXCEPT !.display = "open", !.running = TRUE, !.threads = @ + 1],
          result |-> TRUE]

\* _unregister_all()
unregister_all(g) ==
    IF g.display = "None" THEN g ELSE [g EXCEPT !.registered = <<>>]

\* a plausible slip: stop() closes the display without _unregister_all()
stop_keeps_grabs(g, joined) ==
    IF ~g.running THEN g
    ELSE [g EXCEPT !.running = FALSE,
                   !.display = "None",
                   !.threads = IF joined /\ @ > 0 THEN @ - 1 ELSE @]

\* stop(): `joined` tells whether the poll thread ended within the join timeout
stop(g, joined) ==
    IF ~g.running THEN g
    ELSE [unregister_all(g) EXCEPT !.running = FALSE,
                                   !.display = "None",
                                   !.threads = IF joined /\ @ > 0 THEN @ - 1 ELSE @]

(***************************************************************************)
(* SoundpadApp.  A handler is a chain of steps on                          *)
(* st = [w, app, engine, calls, raised]: the world of the router (with the *)
(* command log), the app's and the engine's fields, the AudioRouter        *)
(* operations called so far, and whether an exception is propagating (the *)
(* remaining steps are then skipped).                                      *)
(***************************************************************************)
NoApp ==
    [phase |-> "constructed",
     init_pending |-> FALSE,
     clips |-> [i \in 1..NClips |-> H_None],
     profiles |-> [name \in {"Default"} |-> [i \in 1..NClips |-> H_None]],
     active_profile_name |-> "Default",
     bound_hotkeys |-> <<>>,
     selected_input_source |-> "",
     combo_values |-> <<>>,
     global_hotkeys_enabled |-> TRUE,
     global_hotkeys_active |-> FALSE,
     push_to_talk_enabled |-> FALSE,
     ptt_hotkey |-> H_CtrlAltM,
     last_hotkey_conflicts |-> <<>>,
     ptt_pressed |-> FALSE,
     mic_muted |-> FALSE,
     speakers_muted |-> TRUE]

World == [modules |-> audio.modules, next_id |-> audio.next_id,
          router |-> audio.router, cmds |-> <<>>]

St0 == [w |-> World, app |-> app, engine |-> engine, calls |-> <<>>, raised |-> FALSE]

\* the step of calling an AudioRouter operation that ended as r
Called(st, name, r) ==
    [st EXCEPT !.w = r.w,
               !.calls = Append(@, name),
               !.raised = (r.status = "raise")]

\* the entries _register_global_hotkeys builds from the configuration
RECURSIVE ClipEntries(_, _)
ClipEntries(clips, idx) ==
    IF idx > Len(clips) THEN <<>>
    ELSE (IF Strip(clips[idx]) # <<>>
          THEN <<[action |-> ClipAction(idx - 1), hotkey |-> Strip(clips[idx])]>>
          ELSE <<>>)
         \o ClipEntries(clips, idx + 1)

HotkeyEntries(a) ==
    ClipEntries(a.clips, 1)
    \o <<[action |-> StopAction, hotkey |-> H_Stop]>>
    \o (IF a.push_to_talk_enabled /\ Strip(a.ptt_hotkey) # <<>>
        THEN <<[action |-> PttAction, hotkey |-> Strip(a.ptt_hotkey)]>>
        ELSE <<>>)

\* SoundpadApp._register_global_hotkeys
register_global_hotkeys(st, foreign) ==
    IF st.raised \/ ~st.app.global_hotkeys_active THEN st
    ELSE LET r == register(st.engine, HotkeyEntries(st.app), foreign)
         IN  [st EXCEPT !.engine = r.g,
                        !.app.last_hotkey_conflicts = r.conflicts]

\* the Tk sequences _bind_hotkeys binds, one per clip with a usable hotkey
RECURSIVE ClipSequences(_, _)
ClipSequences(clips, idx) ==
    IF idx > Len(clips) THEN <<>>
    ELSE LET sequence == hotkey_to_tk_sequence(Strip(clips[idx]))
         IN  (IF Strip(clips[idx]) # <<>> /\ sequence # <<>> THEN <<sequence>> ELSE <<>>)
             \o ClipSequences(clips, idx + 1)

\* SoundpadApp._bind_hotkeys
bind_hotkeys(st, foreign) ==
    IF st.raised THEN st
    ELSE register_global_hotkeys(
             [st EXCEPT !.app.bound_hotkeys = ClipSequences(st.app.clips, 1)], foreign)

InSeq(x, q) == \E i \in 1..Len(q) : q[i] = x

\* exit codes of the commands of one handler (TRUE: exit code 0)
HandlerExits ==
    [mic : Exits2, mute : BOOLEAN, sources : BOOLEAN, info : BOOLEAN, c : Exits]

\* SoundpadApp.refresh_input_sources
refresh_input_sources(st, present, devices, exit0) ==
    IF st.raised THEN st
    ELSE LET r  == list_input_sources(st.w, present, devices, exit0)
             s1 == Called(st, "list_input_sources", r)
             selected == st.app.selected_input_source
         IN  IF s1.raised THEN s1
             ELSE [s1 EXCEPT !.app.combo_values = r.names,
                             !.app.selected_input_source =
                                 IF InSeq(selected, r.names) THEN selected
                                 ELSE IF r.names # <<>> THEN r.names[1]
                                 ELSE ""]

\* SoundpadApp.auto_connect_default_input_source
auto_connect_default_input_source(st, present, devices, default, o, foreign) ==
    IF st.raised THEN st
    ELSE LET selected == st.app.selected_input_source
             rd     == get_default_source(st.w, present, default, o.info)
             s1     == IF selected # "" THEN st
                       ELSE Called(st, "get_default_source", rd)
             chosen == IF selected # "" THEN selected ELSE rd.name
             rl     == list_input_sources(s1.w, present, devices, o.sources)
             s2     == Called(s1, "list_input_sources", rl)
             s3     == [s2 EXCEPT !.app.selected_input_source = chosen]
         IN  IF s1.raised \/ chosen = "" THEN s1
             ELSE IF s2.raised \/ ~InSeq(chosen, rl.names) THEN s2
             ELSE IF s3.app.push_to_talk_enabled
                  THEN register_global_hotkeys(s3, foreign)
             ELSE Called(s3, "connect_input_source_to_soundpad",
                         connect_input_source_to_soundpad(s3.w, present, chosen, o.c))

\* SoundpadApp._setup_audio_router
setup_audio_router(st, present, devices, default, o, foreign) ==
    LET rm == ensure_virtual_mic(st.w, present, o.mic)
        s1 == Called(st, "ensure_virtual_mic", rm)
        s2 == Called(s1, "unload_monitor", unload_monitor(s1.w, present, o.c))
        s3 == Called(s2, "set_mic_mute", set_mic_mute(s2.w, present, o.mute))
        s4 == refresh_input_sources(s3, present, devices, o.sources)
    IN  IF ~present THEN st
        ELSE IF rm.status # "ok" THEN s1
        ELSE auto_connect_default_input_source(s4, present, devices, default, o, foreign)

\* SoundpadApp._ensure_selected_source_connected, as a step of a handler
ensure_selected_source_connected(st, present, o) ==
    LET source_name == st.app.selected_input_source
    IN  IF source_name = "" THEN st
        ELSE Called(st, "connect_input_source_to_soundpad",
                    connect_input_source_to_soundpad(st.w, present, source_name, o))

\* a plausible slip: the state becomes Talking only when the connect succeeded
ptt_press_pessimistic(st, present, o) ==
    LET source_name == st.app.selected_input_source
        r  == connect_input_source_to_soundpad(st.w, present, source_name, o)
        s1 == Called(st, "connect_input_source_to_soundpad", r)
    IN  IF ~st.app.push_to_talk_enabled \/ st.app.ptt_pressed \/ source_name = ""
        THEN st
        ELSE IF r.status = "ok" THEN [s1 EXCEPT !.app.ptt_pressed = TRUE]
        ELSE s1

\* a plausible slip: the press does not test whether the state is Talking
ptt_press_reentrant(st, present, o) ==
    IF ~st.app.push_to_talk_enabled THEN st
    ELSE ensure_selected_source_connected(
             [st EXCEPT !.app.ptt_pressed = TRUE], present, o)

\* SoundpadApp._ptt_press
ptt_press(st, present, o) ==
    IF ~st.app.push_to_talk_enabled \/ st.app.ptt_pressed THEN st
    ELSE ensure_selected_source_connected(
             [st EXCEPT !.app.ptt_pressed = TRUE], present, o)

\* a plausible slip: a failed disconnect puts the state back to Talking
ptt_release_rollback(st, present, o) ==
    LET r == disconnect_input_source_from_soundpad(st.w, present, o)
    IN  IF ~st.app.ptt_pressed THEN st
        ELSE Called([st EXCEPT !.app.ptt_pressed = (r.status # "ok")],
                    "disconnect_input_source_from_soundpad", r)

\* SoundpadApp._ptt_release
ptt_release(st, present, o) ==
    IF ~st.app.ptt_pressed THEN st
    ELSE Called([st EXCEPT !.app.ptt_pressed = FALSE],
                "disconnect_input_source_from_soundpad",
                disconnect_input_source_from_soundpad(st.w, present, o))

\* SoundpadApp.connect_selected_input_source
connect_selected_input_source(st, present, o, foreign) ==
    IF st.app.push_to_talk_enabled THEN register_global_hotkeys(st, foreign)
    ELSE ensure_selected_source_connected(st, present, o)

\* SoundpadApp.disconnect_input_source
disconnect_input_source(st, present, o) ==
    Called([st EXCEPT !.app.ptt_pressed = FALSE],
           "disconnect_input_source_from_soundpad",
           disconnect_input_source_from_soundpad(st.w, present, o))

\* SoundpadApp.toggle_push_to_talk, after the check box flipped the flag
toggle_push_to_talk(st, present, devices, default, o, foreign) ==
    LET s0 == [st EXCEPT !.app.push_to_talk_enabled = ~@,
                         !.app.ptt_pressed = FALSE]
        s1 == IF s0.app.push_to_talk_enabled
              THEN Called(s0, "disconnect_input_source_from_soundpad",
                          disconnect_input_source_from_soundpad(s0.w, present, o.c))
              ELSE auto_connect_default_input_source(s0, present, devices, default,
                                                     o, foreign)
    IN  register_global_hotkeys(s1, foreign)

\* SoundpadApp.toggle_mic_mute
toggle_mic_mute(st, present, exit0) ==
    LET target == ~st.app.mic_muted
        r  == set_mic_mute(st.w, present, exit0)
        s1 == Called(st, "set_mic_mute", r)
    IN  IF r.status # "ok" THEN s1
        ELSE [s1 EXCEPT !.app.mic_muted = target]

\* SoundpadApp.toggle_speakers_mute
toggle_speakers_mute(st, present, o) ==
    LET target == ~st.app.speakers_muted
        r  == IF target THEN unload_monitor(st.w, present, o)
              ELSE ensure_local_monitor(st.w, present, o)
        s1 == Called(st, IF target THEN "unload_monitor" ELSE "ensure_local_monitor", r)
    IN  IF r.status # "ok" THEN s1
        ELSE [s1 EXCEPT !.app.speakers_muted = target]

\* SoundpadApp._save_clips: the list of the active profile is self.clips
save_clips(st) ==
    [st EXCEPT !.app.profiles =
         [name \in DOMAIN @ \cup {st.app.active_profile_name} |->
              IF name = st.app.active_profile_name THEN st.app.clips ELSE @[name]]]

\* SoundpadApp.set_selected_hotkey on the clip at idx (1-based), with the
\* text typed into the dialog
set_selected_hotkey(st, idx, typed_raw, foreign) ==
    LET typed  == Strip(typed_raw)
        clips  == st.app.clips
        same(i) == i # idx /\ Lower(Strip(clips[i])) = Lower(typed)
        other  == IF \E i \in 1..Len(clips) : same(i)
                  THEN CHOOSE i \in 1..Len(clips) :
                           same(i) /\ \A j \in 1..(i - 1) : ~same(j)
                  ELSE 0
        cleared == IF typed # <<>> /\ other # 0
                   THEN [clips EXCEPT ![other] = H_None] ELSE clips
    IN  IF typed # <<>> /\ hotkey_to_tk_sequence(typed) = <<>> THEN st
        ELSE bind_hotkeys(
                 save_clips([st EXCEPT !.app.clips = [cleared EXCEPT ![idx] = typed]]),
                 foreign)

\* SoundpadApp.clear_selected_hotkey
clear_selected_hotkey(st, idx, foreign) ==
    bind_hotkeys(save_clips([st EXCEPT !.app.clips[idx] = H_None]), foreign)

\* SoundpadApp.add_clips with n files chosen in the dialog
add_clips(st, n, foreign) ==
    IF n = 0 THEN st
    ELSE bind_hotkeys(save_clips([st EXCEPT !.app.clips = @ \o [i \in 1..n |-> H_None]]),
                      foreign)

\* SoundpadApp.remove_selected; idx = 0 stands for no selection
remove_selected(st, idx, foreign) ==
    IF idx = 0 THEN st
    ELSE bind_hotkeys(
             save_clips([st EXCEPT !.app.clips =
                             SubSeq(@, 1, idx - 1) \o SubSeq(@, idx + 1, Len(@))]),
             foreign)

\* SoundpadApp.switch_profile
switch_profile(st, name, foreign) ==
    IF name \notin DOMAIN st.app.profiles THEN st
    ELSE LET current == st.app.active_profile_name
             saved   == IF current \in DOMAIN st.app.profiles
                        THEN [st.app.profiles EXCEPT ![current] = st.app.clips]
                        ELSE st.app.profiles
         IN  bind_hotkeys([st EXCEPT !.app.profiles = saved,
                                     !.app.active_profile_name = name,
                                     !.app.clips = saved[name]],
                          foreign)

\* SoundpadApp.set_ptt_hotkey with the text typed into the dialog
set_ptt_hotkey(st, typed_raw, foreign) ==
    LET typed == Strip(typed_raw)
    IN  IF typed = <<>> \/ hotkey_to_tk_sequence(typed) = <<>> THEN st
        ELSE register_global_hotkeys([st EXCEPT !.app.ptt_hotkey = typed], foreign)

\* SoundpadApp._init_global_hotkeys
init_global_hotkeys(st, xlib_available, opens, foreign) ==
    IF ~st.app.global_hotkeys_enabled THEN st
    ELSE LET r  == start(st.engine, xlib_available, opens)
             s1 == [st EXCEPT !.engine = r.g, !.app.global_hotkeys_active = r.result]
         IN  register_global_hotkeys(s1, foreign)

\* SoundpadApp.toggle_global_hotkeys, after the check box flipped the flag
toggle_global_hotkeys(st, xlib_available, opens, joined, foreign) ==
    LET s0 == [st EXCEPT !.app.global_hotkeys_enabled = ~@]
        r  == start(s0.engine, xlib_available, opens)
        s1 == IF s0.app.global_hotkeys_active THEN s0
              ELSE [s0 EXCEPT !.engine = r.g, !.app.global_hotkeys_active = r.result]
    IN  IF s0.app.global_hotkeys_enabled
        THEN IF ~s1.app.global_hotkeys_active
             THEN [s1 EXCEPT !.app.global_hotkeys_enabled = FALSE]
             ELSE register_global_hotkeys(s1, foreign)
        ELSE IF s0.app.global_hotkeys_active
             THEN [s0 EXCEPT !.engine = stop(s0.engine, joined),
                             !.app.global_hotkeys_active = FALSE]
             ELSE s0

(***************************************************************************)
(* Key events.  The X server delivers a key press to this client when the  *)
(* client holds a grab for exactly that key code and modifier state, and   *)
(* then the release of that key too.  An event is [type, detail, state, n] *)
(* with n the server's sequence number; `taken` holds the events a poll    *)
(* thread has read and not yet dispatched.                                 *)
(***************************************************************************)
\* (taken: the events poll threads hold; dropped: the numbers of the events
\* a poll thread held when an exception ended its pass)
NoXServer == [foreign |-> {}, events |-> <<>>, held |-> {}, taken |-> {}, n |-> 0,
              dropped |-> {}]

\* self.after(0, fn): Tk runs the tasks of equal delay in the order scheduled
AfterEnqueue(q, task) == Append(q, task)

\* SoundpadApp._on_global_hotkey: the tasks queue after the call
on_global_hotkey(q, action, pressed, n) ==
    IF action.kind = "__stop__" /\ pressed
    THEN AfterEnqueue(q, [fn |-> "stop_playback", idx |-> -1, n |-> n])
    ELSE IF action.kind = "__ptt__"
    THEN AfterEnqueue(q, [fn |-> IF pressed THEN "_ptt_press" ELSE "_ptt_release",
                          idx |-> -1, n |-> n])
    ELSE IF pressed /\ action.kind = "clip"
    THEN AfterEnqueue(q, [fn |-> "play_index", idx |-> action.idx, n |-> n])
    ELSE q

\* the modifier bits _loop keeps of an event's state
LoopStateMask == ShiftMask + ControlMask + Mod1Mask + Mod4Mask

\* a plausible slip: the event's state is looked up as it comes
loop_dispatch_unmasked(q, bindings, event) ==
    IF HasBinding(bindings, event.detail, event.state)
    THEN on_global_hotkey(q, BindingGet(bindings, event.detail, event.state),
                          event.type = "KeyPress", event.n)
    ELSE q

\* one event through the body of GlobalHotkeyManager._loop
loop_dispatch(q, bindings, event) ==
    LET state == BitAnd(event.state, LoopStateMask)
    IN  IF HasBinding(bindings, event.detail, state)
        THEN on_global_hotkey(q, BindingGet(bindings, event.detail, state),
                              event.type = "KeyPress", event.n)
        ELSE q

(***************************************************************************)
(* History of the last handler, for stating the properties.                *)
(***************************************************************************)
NoCycle == [stage |-> "none", source |-> "", ok |-> FALSE, calls |-> <<>>]
NoStart == [called |-> FALSE, backend |-> FALSE, result |-> FALSE, threads |-> 0]
NoEdit  == [idx |-> 0, typed |-> <<>>, before |-> <<>>]
\* the output of a pactl command
NoOutput == [stderr |-> <<>>, stdout |-> <<>>]
\* the message a router operation returned, with the exit codes of its
\* commands and the output of the load that failed (kept for
\* ensure_virtual_mic)
NoMsg == [text |-> <<>>,
          o    |-> [list1 |-> TRUE, load1 |-> TRUE, list2 |-> TRUE, load2 |-> TRUE],
          out  |-> NoOutput]
NoCall  == [arg |-> "", status |-> "", run |-> 0, oks |-> 0, msg |-> NoMsg]

NoHist == [op |-> "", cmds |-> <<>>, calls |-> <<>>, raised |-> FALSE,
           ptt |-> NoCycle, start |-> NoStart, edit |-> NoEdit, last_n |-> 0,
           call |-> NoCall, g |-> NoEngine]

AudioOf(w) == [modules |-> w.modules, next_id |-> w.next_id, router |-> w.router]

\* closing the display drops the client's queued events and active grabs
XAfter(g) ==
    IF engine.display = "open" /\ g.display = "None"
    THEN [xserver EXCEPT !.events = <<>>, !.held = {}]
    ELSE xserver

\* the handler `op` ran from St0 and ended in st
Commit(st, op, h) ==
    /\ st.w.next_id <= MaxModuleId + 1
    /\ audio' = AudioOf(st.w)
    /\ app' = st.app
    /\ engine' = st.engine
    /\ xserver' = XAfter(st.engine)
    /\ hist' = [h EXCEPT !.op = op, !.cmds = <<>>, !.calls = st.calls,
                         !.raised = st.raised, !.call = NoCall]
    /\ UNCHANGED <<codec, reg, env>>

\* the history with the per-handler parts cleared
Plain == [hist EXCEPT !.ptt = NoCycle, !.start = NoStart, !.edit = NoEdit,
                      !.g = NoEngine]

Ready == app.phase = "ready"

(***************************************************************************)
(* Foreground handlers.                                                    *)
(***************************************************************************)
\* (os: the exit codes the handler's commands may end with)
SetupAudioRouterIn(os) ==
    /\ app.phase = "constructed"
    /\ \E o \in os :
        LET st == setup_audio_router(St0, env.pactl_present, env.devices,
                                     env.default_source, o, xserver.foreign)
        IN  Commit([st EXCEPT !.app.phase = "ready"], "_setup_audio_router", Plain)
    /\ UNCHANGED after_queue

SetupAudioRouter == SetupAudioRouterIn(HandlerExits)

InitGlobalHotkeys ==
    /\ Ready /\ app.init_pending
    /\ \E opens \in BOOLEAN :
        LET st == init_global_hotkeys(St0, env.xlib_available, opens, xserver.foreign)
            h  == [Plain EXCEPT !.start =
                      [called  |-> app.global_hotkeys_enabled,
                       backend |-> env.xlib_available /\ opens,
                       result  |-> st.app.global_hotkeys_active,
                       threads |-> engine.threads]]
        IN  Commit([st EXCEPT !.app.init_pending = FALSE], "_init_global_hotkeys", h)
    /\ UNCHANGED after_queue

\* the check box "Global Hotkeys (X11)" is clicked
ToggleStep ==
    /\ Ready
    /\ \E opens \in BOOLEAN, joined \in BOOLEAN :
        /\ joined \/ engine.threads < MaxThreads
        /\ joined => Cardinality(xserver.taken) < engine.threads
        /\ LET st == toggle_global_hotkeys(St0, env.xlib_available, opens, joined,
                                           xserver.foreign)
               h  == [Plain EXCEPT !.start =
                         [called  |-> ~app.global_hotkeys_enabled
                                      /\ ~app.global_hotkeys_active,
                          backend |-> env.xlib_available /\ opens,
                          result  |-> st.app.global_hotkeys_active,
                          threads |-> engine.threads]]
           IN  Commit(st, "toggle_global_hotkeys", h)
    /\ UNCHANGED after_queue

\* a click after the timer of _init_global_hotkeys has fired
ToggleGlobalHotkeys ==
    /\ ~app.init_pending
    /\ ToggleStep

\* a click in the 100 ms between the start of the main loop and the timer
\* of _init_global_hotkeys
ToggleBeforeInit ==
    /\ app.init_pending
    /\ ToggleStep

SetSelectedHotkey ==
    /\ Ready
    /\ \E idx \in 1..Len(app.clips), typed \in TypedTexts :
        Commit(set_selected_hotkey(St0, idx, typed, xserver.foreign),
               "set_selected_hotkey",
               [Plain EXCEPT !.edit = [idx |-> idx, typed |-> typed,
                                       before |-> app.clips]])
    /\ UNCHANGED after_queue

ClearSelectedHotkey ==
    /\ Ready
    /\ \E idx \in 1..Len(app.clips) :
        /\ app.clips[idx] # H_None
        /\ Commit(clear_selected_hotkey(St0, idx, xserver.foreign),
                  "clear_selected_hotkey", Plain)
    /\ UNCHANGED after_queue

\* what a user types while the configuration is being changed: another
\* spelling of the chord the first clip starts with
ConfigTexts == {H_Control1}
\* push-to-talk chords: the default one and the chord of a clip
PttTexts == {H_CtrlAltM, H_Ctrl1}
ProfileNames == {"Default", "Stream"}

EditHotkey ==
    /\ Ready
    /\ \E idx \in 1..Len(app.clips), typed \in ConfigTexts :
        Commit(set_selected_hotkey(St0, idx, typed, xserver.foreign),
               "set_selected_hotkey", Plain)
    /\ UNCHANGED after_queue

AddClips ==
    /\ Ready
    /\ \E n \in 0..1 :
        /\ Len(app.clips) + n <= NClips
        /\ Commit(add_clips(St0, n, xserver.foreign), "add_clips", Plain)
    /\ UNCHANGED after_queue

RemoveSelected ==
    /\ Ready
    /\ \E idx \in 0..Len(app.clips) :
        Commit(remove_selected(St0, idx, xserver.foreign), "remove_selected", Plain)
    /\ UNCHANGED after_queue

SwitchProfile ==
    /\ Ready
    /\ \E name \in ProfileNames :
        Commit(switch_profile(St0, name, xserver.foreign), "switch_profile", Plain)
    /\ UNCHANGED after_queue

SetPttHotkey ==
    /\ Ready
    /\ \E typed \in PttTexts \cup {H_None} :
        Commit(set_ptt_hotkey(St0, typed, xserver.foreign), "set_ptt_hotkey", Plain)
    /\ UNCHANGED after_queue

ConnectSelectedInputSourceIn(os) ==
    /\ Ready
    /\ \E o \in os :
        Commit(connect_selected_input_source(St0, env.pactl_present, o, xserver.foreign),
               "connect_selected_input_source", Plain)
    /\ UNCHANGED after_queue

ConnectSelectedInputSource == ConnectSelectedInputSourceIn(Exits)

DisconnectInputSourceIn(os) ==
    /\ Ready
    /\ \E o \in os :
        Commit(disconnect_input_source(St0, env.pactl_present, o),
               "disconnect_input_source", Plain)
    /\ UNCHANGED after_queue

DisconnectInputSource == DisconnectInputSourceIn(ExitsNoLoad)

TogglePushToTalkIn(os) ==
    /\ Ready
    /\ \E o \in os :
        Commit(toggle_push_to_talk(St0, env.pactl_present, env.devices,
                                   env.default_source, o, xserver.foreign),
               "toggle_push_to_talk", Plain)
    /\ UNCHANGED after_queue

TogglePushToTalk == TogglePushToTalkIn([info : BOOLEAN, sources : BOOLEAN, c : Exits])

ToggleMicMute ==
    /\ Ready
    /\ \E exit0 \in BOOLEAN :
        Commit(toggle_mic_mute(St0, env.pactl_present, exit0), "toggle_mic_mute", Plain)
    /\ UNCHANGED after_queue

ToggleSpeakersMute ==
    /\ Ready
    /\ \E o \in Exits :
        Commit(toggle_speakers_mute(St0, env.pactl_present, o),
               "toggle_speakers_mute", Plain)
    /\ UNCHANGED after_queue

\* the user picks another entry of the source combo box
SelectSource ==
    /\ Ready
    /\ \E i \in 1..Len(app.combo_values) :
        /\ app.combo_values[i] # app.selected_input_source
        /\ app' = [app EXCEPT !.selected_input_source = app.combo_values[i]]
    /\ hist' = [Plain EXCEPT !.op = "select_source", !.cmds = <<>>, !.calls = <<>>,
                             !.raised = FALSE]
    /\ UNCHANGED <<codec, reg, env, audio, xserver, engine, after_queue>>

\* SoundpadApp._on_close
on_close(st, present, o, joined) ==
    LET s1 == Called(st, "disconnect_input_source_from_soundpad",
                     disconnect_input_source_from_soundpad(st.w, present, o))
    IN  IF s1.raised THEN s1
        ELSE [s1 EXCEPT !.engine = IF s1.app.global_hotkeys_active
                                   THEN stop(s1.engine, joined) ELSE @,
                        !.app.global_hotkeys_active = FALSE,
                        !.app.phase = "closed"]

OnClose ==
    /\ Ready
    /\ \E o \in ExitsNoLoad, joined \in BOOLEAN :
        /\ joined \/ engine.threads < MaxThreads
        /\ joined => Cardinality(xserver.taken) < engine.threads
        /\ Commit(on_close(St0, env.pactl_present, o, joined), "_on_close", Plain)
    /\ UNCHANGED after_queue

(***************************************************************************)
(* Tasks the foreground takes from the head of the after queue.            *)
(***************************************************************************)
HeadIs(fn) == Ready /\ after_queue # <<>> /\ Head(after_queue).fn = fn

RunPttPressIn(os) ==
    /\ HeadIs("_ptt_press")
    /\ \E o \in os :
        LET st == ptt_press(St0, env.pactl_present, o)
            fresh == app.push_to_talk_enabled /\ ~app.ptt_pressed
            connected ==
                /\ app.selected_input_source # ""
                /\ connect_input_source_to_soundpad(
                       World, env.pactl_present,
                       app.selected_input_source, o).status = "ok"
            h  == [Plain EXCEPT !.last_n = Head(after_queue).n,
                                !.ptt = IF fresh
                                        THEN [stage  |-> "down",
                                              source |-> app.selected_input_source,
                                              ok     |-> connected,
                                              calls  |-> st.calls]
                                        ELSE NoCycle]
        IN  Commit(st, "_ptt_press", h)
    /\ after_queue' = Tail(after_queue)

RunPttPress == RunPttPressIn(Exits)

RunPttReleaseIn(os) ==
    /\ HeadIs("_ptt_release")
    /\ \E o \in os :
        LET st == ptt_release(St0, env.pactl_present, o)
            h  == [Plain EXCEPT !.last_n = Head(after_queue).n,
                                !.ptt = IF hist.ptt.stage = "down"
                                        THEN [hist.ptt EXCEPT !.stage = "up",
                                                              !.calls = @ \o st.calls]
                                        ELSE NoCycle]
        IN  Commit(st, "_ptt_release", h)
    /\ after_queue' = Tail(after_queue)

RunPttRelease == RunPttReleaseIn(ExitsNoLoad)

\* stop_playback and play_index act on the player process only
RunStopPlayback ==
    /\ HeadIs("stop_playback")
    /\ Commit(St0, "stop_playback", [Plain EXCEPT !.last_n = Head(after_queue).n])
    /\ after_queue' = Tail(after_queue)

RunPlayIndex ==
    /\ HeadIs("play_index")
    /\ Commit(St0, "play_index", [Plain EXCEPT !.last_n = Head(after_queue).n])
    /\ after_queue' = Tail(after_queue)

(***************************************************************************)
(* The X server and the poll thread.                                       *)
(***************************************************************************)
\* a key this client holds a grab for goes down, with NumLock on or off
KeyDown ==
    /\ engine.display = "open"
    /\ xserver.n < MaxEdges
    /\ Len(xserver.events) < MaxQueue
    /\ \E i \in 1..Len(engine.registered) :
        LET g == engine.registered[i]
        IN  /\ BitAnd(g[2], LockMask) = 0
            /\ \A h \in xserver.held : h[1] # g[1]
            /\ xserver' = [xserver EXCEPT
                   !.n = @ + 1,
                   !.held = @ \cup {g},
                   !.events = Append(@, [type |-> "KeyPress", detail |-> g[1],
                                         state |-> g[2], n |-> xserver.n + 1])]
    /\ UNCHANGED <<codec, reg, env, audio, engine, app, after_queue, hist>>

\* a key held down under this client's grab goes up
KeyUp ==
    /\ \E g \in xserver.held :
        xserver' = [xserver EXCEPT
            !.n = @ + 1,
            !.held = @ \ {g},
            !.events = Append(@, [type |-> "KeyRelease", detail |-> g[1],
                                  state |-> g[2], n |-> xserver.n + 1])]
    /\ UNCHANGED <<codec, reg, env, audio, engine, app, after_queue, hist>>

\* GlobalHotkeyManager._loop, a poll thread at `event = next_event()`: the
\* thread now holds the oldest pending event
LoopTake ==
    /\ engine.threads > 0 /\ engine.running /\ engine.display = "open"
    /\ xserver.events # <<>>
    /\ Cardinality(xserver.taken) < engine.threads
    /\ xserver' = [xserver EXCEPT !.events = Tail(@),
                                  !.taken = @ \cup {Head(xserver.events)}]
    /\ UNCHANGED <<codec, reg, env, audio, engine, app, after_queue, hist>>

\* a plausible slip: the poll thread makes the push-to-talk transition
\* itself instead of handing the edge to the foreground
LoopDispatch_sync ==
    /\ Len(after_queue) < MaxQueue
    /\ \E event \in xserver.taken :
        LET q == loop_dispatch(after_queue, engine.bindings, event)
            ptt == q # after_queue /\ q[Len(q)].fn = "_ptt_press"
        IN  /\ after_queue' = IF ptt THEN after_queue ELSE q
            /\ app' = IF ptt /\ app.push_to_talk_enabled
                      THEN [app EXCEPT !.ptt_pressed = TRUE] ELSE app
            /\ xserver' = [xserver EXCEPT !.taken = @ \ {event}]
    /\ UNCHANGED <<codec, reg, env, audio, engine, hist>>

\* a poll thread masks the state of the event it holds, looks the event up
\* and calls on_trigger
LoopDispatch ==
    /\ Len(after_queue) < MaxQueue
    /\ \E event \in xserver.taken :
        /\ after_queue' = loop_dispatch(after_queue, engine.bindings, event)
        /\ xserver' = [xserver EXCEPT !.taken = @ \ {event}]
    /\ UNCHANGED <<codec, reg, env, audio, engine, app, hist>>

\* a poll thread that holds no event sees `self.running and self.display`
\* false and ends
LoopExit ==
    /\ engine.threads > Cardinality(xserver.taken)
    /\ ~(engine.running /\ engine.display = "open")
    /\ engine' = [engine EXCEPT !.threads = @ - 1]
    /\ UNCHANGED <<codec, reg, env, audio, xserver, app, after_queue, hist>>

\* grabs another client may hold: none, every variant of Alt+1, or Alt+3
\* without lock modifiers
ForeignOptions ==
    { {},
      {<<10, Mod1Mask + LockVariants[i]>> : i \in 1..Len(LockVariants)},
      {<<12, Mod1Mask>>} }

Range(q) == {q[i] : i \in 1..Len(q)}

\* another client takes or gives up grabs this client does not hold
ForeignChange ==
    /\ \E f \in ForeignOptions :
        /\ f # xserver.foreign
        /\ f \cap Range(engine.registered) = {}
        /\ xserver' = [xserver EXCEPT !.foreign = f]
    /\ UNCHANGED <<codec, reg, env, audio, engine, app, after_queue, hist>>

(***************************************************************************)
(* AudioRouter's public operations called directly, one after another.     *)
(***************************************************************************)
\* the call `name(arg)` ended as r; the history counts the calls of the same
\* operation made in a row, and those of them that returned success in a row
\* up to this one (both up to three)
RouterCall(name, arg, r, msg) ==
    LET same == hist.op = name
        up(n) == IF n < 3 THEN n + 1 ELSE 3
    IN  /\ r.w.next_id <= MaxModuleId + 1
        /\ audio' = AudioOf(r.w)
        /\ hist' = [Plain EXCEPT
               !.op = name, !.cmds = r.w.cmds, !.calls = <<name>>,
               !.raised = (r.status = "raise"),
               !.call = [arg    |-> arg,
                         msg    |-> msg,
                         status |-> r.status,
                         run    |-> IF same THEN up(hist.call.run) ELSE 1,
                         oks    |-> IF r.status # "ok" THEN 0
                                    ELSE IF same THEN up(hist.call.oks) ELSE 1]]
        /\ UNCHANGED <<codec, reg, env, xserver, engine, app, after_queue>>

CallEnsureVirtualMic ==
    \E o \in Exits2 :
        RouterCall("ensure_virtual_mic", "", ensure_virtual_mic(World, env.pactl_present, o), NoMsg)

CallEnsureLocalMonitor ==
    \E o \in Exits :
        RouterCall("ensure_local_monitor", "",
                   ensure_local_monitor(World, env.pactl_present, o), NoMsg)

CallUnloadMonitor ==
    \E o \in Exits :
        RouterCall("unload_monitor", "", unload_monitor(World, env.pactl_present, o), NoMsg)

CallConnect ==
    \E o \in Exits, source_name \in RealSources :
        RouterCall("connect_input_source_to_soundpad", source_name,
                   connect_input_source_to_soundpad(World, env.pactl_present,
                                                    source_name, o), NoMsg)

CallDisconnect ==
    \E o \in ExitsNoLoad :
        RouterCall("disconnect_input_source_from_soundpad", "",
                   disconnect_input_source_from_soundpad(World, env.pactl_present, o), NoMsg)

(***************************************************************************)
(* GlobalHotkeyManager's public operations called directly, with the poll  *)
(* thread running beside them.                                             *)
(***************************************************************************)
H_AltFoo == <<"A","l","t","+","F","o","o">>

Entry(action, hotkey) == [action |-> action, hotkey |-> hotkey]

\* binding lists handed to register(): distinct chords, a chord next to its
\* Shift variant, one chord written in two ways, a clip on the reserved stop
\* chord, and texts that do not parse or name no key of the keyboard
BindingLists ==
    { <<Entry(ClipAction(0), H_Alt1), Entry(StopAction, H_Stop)>>,
      <<Entry(ClipAction(0), H_Alt3), Entry(ClipAction(1), H_ShiftAlt3)>>,
      <<Entry(ClipAction(0), H_Ctrl1), Entry(ClipAction(1), H_Control1)>>,
      <<Entry(ClipAction(0), H_Stop), Entry(StopAction, H_Stop)>>,
      <<Entry(ClipAction(0), H_Hyper1), Entry(ClipAction(1), H_AltFoo),
        Entry(StopAction, H_Stop)>> }

\* a call of the manager's operation `name` that left the engine as g; the
\* history keeps the engine a stop() or a register() found
ManagerCall(name, g) ==
    /\ engine' = g
    /\ xserver' = XAfter(g)
    /\ hist' = [Plain EXCEPT !.op = name, !.cmds = <<>>, !.calls = <<>>,
                             !.raised = FALSE, !.call = NoCall,
                             !.g = IF name \in {"stop", "register"} THEN engine ELSE NoEngine]
    /\ UNCHANGED <<codec, env, audio, app, after_queue>>

CallStart ==
    /\ reg.pc = "idle"
    /\ \E opens \in BOOLEAN :
        ManagerCall("start", start(engine, env.xlib_available, opens).g)
    /\ UNCHANGED reg

CallStop ==
    /\ reg.pc = "idle"
    /\ \E joined \in BOOLEAN :
        /\ joined \/ engine.threads < MaxThreads
        /\ joined => Cardinality(xserver.taken) < engine.threads
        /\ ManagerCall("stop", stop(engine, joined))
    /\ UNCHANGED reg

\* register(hotkey_actions) from the call to the return
CallRegister ==
    /\ reg.pc = "idle"
    /\ \E entries \in BindingLists :
        LET r == register(engine, entries, xserver.foreign)
        IN  /\ ManagerCall("register", r.g)
            /\ reg' = [NoReg EXCEPT
                   !.entries = entries,
                   !.conflicts = r.conflicts,
                   !.backend = IF engine.running /\ engine.display = "open"
                               THEN RegisterBackend(entries) ELSE <<>>]

\* the binding lists of the calls followed statement by statement
RegisterLists ==
    { <<Entry(ClipAction(0), H_Alt1), Entry(StopAction, H_Stop)>>,
      <<Entry(ClipAction(0), H_Alt3), Entry(ClipAction(1), H_ShiftAlt3)>> }

\* register(hotkey_actions) statement by statement, as the poll thread sees
\* it: the guard, _unregister_all() and `self.bindings = {}`
RegisterBegin ==
    /\ reg.pc = "idle"
    /\ \E entries \in RegisterLists :
        IF ~engine.running \/ engine.display = "None"
        THEN /\ ManagerCall("register", engine)
             /\ reg' = [NoReg EXCEPT !.entries = entries]
        ELSE /\ ManagerCall("register:loop",
                            [unregister_all(engine) EXCEPT !.bindings = {}])
             /\ reg' = [pc |-> "loop", entries |-> entries, rest |-> entries,
                        conflicts |-> <<>>, old |-> engine.bindings,
                        backend |-> <<>>]

\* one pass of `for action, hotkey in hotkey_actions`
RegisterEntry ==
    /\ reg.pc = "loop" /\ reg.rest # <<>>
    /\ LET acc == RegisterOne([registered |-> engine.registered,
                               bindings |-> engine.bindings,
                               conflicts |-> reg.conflicts],
                              Head(reg.rest).action, Head(reg.rest).hotkey,
                              xserver.foreign)
       IN  /\ engine' = [engine EXCEPT !.registered = acc.registered,
                                       !.bindings = acc.bindings]
           /\ reg' = [reg EXCEPT !.rest = Tail(@), !.conflicts = acc.conflicts]
    /\ UNCHANGED <<codec, env, audio, xserver, app, after_queue, hist>>

\* the flush and `return conflicts`
RegisterEnd ==
    /\ reg.pc = "loop" /\ reg.rest = <<>>
    /\ reg' = [reg EXCEPT !.pc = "idle", !.old = {}]
    /\ hist' = [hist EXCEPT !.op = "register"]
    /\ UNCHANGED <<codec, env, audio, xserver, engine, app, after_queue>>

(***************************************************************************)
(* Initial states.                                                         *)
(***************************************************************************)
Module(id, name, args) == [id |-> id, name |-> name, args |-> args]

\* what an earlier session may have left loaded in the sound server
LeftoverModules ==
    { <<>>,
      <<Module(1, "module-null-sink", NullSinkArgs),
        Module(2, "module-remap-source", RemapSourceArgs)>>,
      <<Module(1, "module-null-sink", NullSinkArgs),
        Module(2, "module-remap-source", RemapSourceArgs),
        Module(3, "module-loopback", MonitorLoopArgs)>>,
      <<Module(1, "module-null-sink", NullSinkArgs),
        Module(2, "module-remap-source", RemapSourceArgs),
        Module(3, "module-loopback", MicLoopArgs("mic1"))>> }

AudioInit ==
    \E ms \in LeftoverModules :
        audio = [modules |-> ms, next_id |-> Len(ms) + 1, router |-> NoRouter]

NoAudio == [modules |-> <<>>, next_id |-> 1, router |-> NoRouter]

\* a machine with pactl installed, with two microphones or none
EnvInit ==
    \E mics \in BOOLEAN :
        env = [pactl_present |-> TRUE, xlib_available |-> TRUE,
               devices |-> IF mics THEN <<"mic1", "mic2">> ELSE <<>>,
               default_source |-> IF mics THEN "mic2" ELSE ""]

\* the application after __init__'s field assignments and _load_settings,
\* before _setup_audio_router; _init_global_hotkeys is scheduled
Init ==
    /\ codec = NoCodec
    /\ EnvInit
    /\ audio = NoAudio
    /\ xserver = NoXServer
    /\ engine = NoEngine
    /\ \E source \in {"", "mic1"}, ptt \in BOOLEAN :
        app = [NoApp EXCEPT !.init_pending = TRUE,
                            !.selected_input_source = source,
                            !.push_to_talk_enabled = ptt]
    /\ after_queue = <<>>
    /\ hist = NoHist
    /\ reg = NoReg

Next ==
    \/ SetupAudioRouter
    \/ InitGlobalHotkeys
    \/ ConnectSelectedInputSource
    \/ DisconnectInputSource
    \/ KeyDown
    \/ KeyUp
    \/ LoopTake
    \/ LoopDispatch
    \/ RunPttPress
    \/ RunPttRelease
    \/ RunStopPlayback
    \/ OnClose
    \/ LoopExit

\* the application: audio routing and push-to-talk
Spec == Init /\ [][Next]_vars

\* the hotkey configuration on a machine without input devices
HotkeysInit ==
    /\ codec = NoCodec
    /\ \E xlib \in BOOLEAN :
        env = [pactl_present |-> TRUE, xlib_available |-> xlib,
               devices |-> <<>>, default_source |-> ""]
    /\ audio = NoAudio
    /\ \E f \in ForeignOptions : xserver = [NoXServer EXCEPT !.foreign = f]
    /\ engine = NoEngine
    /\ \E ptt \in BOOLEAN :
        app = [NoApp EXCEPT !.phase = "ready", !.init_pending = TRUE,
                            !.push_to_talk_enabled = ptt]
    /\ after_queue = <<>>
    /\ hist = NoHist
    /\ reg = NoReg

HotkeysNext ==
    \/ InitGlobalHotkeys
    \/ SetSelectedHotkey
    \/ ClearSelectedHotkey
    \/ ForeignChange

\* the application: clip hotkeys and the capture engine
SpecHotkeys == HotkeysInit /\ [][HotkeysNext]_vars

\* the capture engine switched on and off while keys go down and up, with
\* push-to-talk enabled and no input source to route
EngineInit ==
    /\ codec = NoCodec
    /\ \E xlib \in BOOLEAN :
        env = [pactl_present |-> TRUE, xlib_available |-> xlib,
               devices |-> <<>>, default_source |-> ""]
    /\ audio = NoAudio
    /\ xserver = NoXServer
    /\ engine = NoEngine
    /\ app = [NoApp EXCEPT !.phase = "ready", !.init_pending = TRUE,
                           !.push_to_talk_enabled = TRUE]
    /\ after_queue = <<>>
    /\ hist = NoHist
    /\ reg = NoReg

EngineNext ==
    \/ InitGlobalHotkeys
    \/ ToggleGlobalHotkeys
    \/ KeyDown
    \/ KeyUp
    \/ LoopTake
    \/ LoopDispatch
    \/ LoopExit
    \/ RunPttPress
    \/ RunPttRelease
    \/ RunStopPlayback

\* the application: the capture engine's life cycle and the key edges
SpecEngine == EngineInit /\ [][EngineNext]_vars

\* what the scheduling gives: a poll thread is a live thread that comes back
\* to its loop condition every 0.02 s (0.1 s after an exception), so it does
\* not miss a clear flag that it is shown again and again; Tk's main loop
\* runs the callbacks queued with after(0, ...)
EngineFairness ==
    /\ WF_vars(LoopTake)
    /\ WF_vars(LoopDispatch)
    /\ SF_vars(LoopExit)
    /\ WF_vars(RunPttPress)
    /\ WF_vars(RunPttRelease)
    /\ WF_vars(RunStopPlayback)

\* the same application with its threads scheduled fairly
SpecEngineFair == EngineInit /\ [][EngineNext]_vars /\ EngineFairness

RouterInit ==
    /\ codec = NoCodec
    /\ \E present \in BOOLEAN :
        env = [pactl_present |-> present, xlib_available |-> TRUE,
               devices |-> <<"mic1", "mic2">>, default_source |-> "mic2"]
    /\ AudioInit
    /\ xserver = NoXServer
    /\ engine = NoEngine
    /\ app = NoApp
    /\ after_queue = <<>>
    /\ hist = NoHist
    /\ reg = NoReg

RouterNext ==
    \/ CallEnsureVirtualMic
    \/ CallConnect
    \/ CallDisconnect

\* AudioRouter alone, under any sequence of calls
SpecRouter == RouterInit /\ [][RouterNext]_vars

CodecInitAll ==
    /\ CodecInit
    /\ env = [pactl_present |-> TRUE, xlib_available |-> TRUE,
              devices |-> <<>>, default_source |-> ""]
    /\ audio = NoAudio
    /\ xserver = NoXServer
    /\ engine = NoEngine
    /\ app = NoApp
    /\ after_queue = <<>>
    /\ hist = NoHist
    /\ reg = NoReg

CodecNext ==
    \/ CodecParse
    \/ CodecSerialize

\* the chord codec on typed texts
SpecCodec == CodecInitAll /\ [][CodecNext]_vars

\* the manager on its own, before start(); another client may hold grabs
ManagerInit ==
    /\ codec = NoCodec
    /\ env = [pactl_present |-> TRUE, xlib_available |-> TRUE,
              devices |-> <<>>, default_source |-> ""]
    /\ audio = NoAudio
    /\ \E f \in ForeignOptions : xserver = [NoXServer EXCEPT !.foreign = f]
    /\ engine = NoEngine
    /\ app = [NoApp EXCEPT !.phase = "ready"]
    /\ after_queue = <<>>
    /\ hist = NoHist
    /\ reg = NoReg

ManagerNext ==
    \/ CallStart
    \/ CallStop
    \/ CallRegister
    \/ LoopExit

\* GlobalHotkeyManager alone, under any sequence of calls
SpecManager == ManagerInit /\ [][ManagerNext]_vars

\* the manager before start(), no other client holding a grab
RegisterInit ==
    /\ codec = NoCodec
    /\ env = [pactl_present |-> TRUE, xlib_available |-> TRUE,
              devices |-> <<>>, default_source |-> ""]
    /\ audio = NoAudio
    /\ xserver = NoXServer
    /\ engine = NoEngine
    /\ app = [NoApp EXCEPT !.phase = "ready"]
    /\ after_queue = <<>>
    /\ hist = NoHist
    /\ reg = NoReg

RegisterNext ==
    \/ CallStart
    \/ RegisterBegin
    \/ RegisterEntry
    \/ RegisterEnd
    \/ KeyDown
    \/ KeyUp
    \/ LoopTake
    \/ LoopDispatch

\* register() interleaved with the poll thread
SpecRegister == RegisterInit /\ [][RegisterNext]_vars

\* a session after start-up, with microphones and mic1 selected
PttInit ==
    /\ codec = NoCodec
    /\ env = [pactl_present |-> TRUE, xlib_available |-> TRUE,
              devices |-> <<"mic1", "mic2">>, default_source |-> "mic2"]
    /\ audio = NoAudio
    /\ xserver = NoXServer
    /\ engine = NoEngine
    /\ \E ptt \in BOOLEAN :
        app = [NoApp EXCEPT !.phase = "ready", !.init_pending = TRUE,
                            !.selected_input_source = "mic1",
                            !.combo_values = <<"mic1", "mic2">>,
                            !.push_to_talk_enabled = ptt]
    /\ after_queue = <<>>
    /\ hist = NoHist
    /\ reg = NoReg

\* the poll thread calls on_trigger for an edge of a chord of the table, in
\* any order of presses and releases
OnTrigger ==
    /\ engine.running /\ engine.threads > 0
    /\ Len(after_queue) < MaxQueue
    /\ \E b \in engine.bindings, pressed \in BOOLEAN :
        /\ b.action = PttAction
        /\ after_queue' = on_global_hotkey(after_queue, b.action, pressed, 0)
    /\ UNCHANGED <<codec, reg, env, audio, xserver, engine, app, hist>>

PttNext ==
    \/ InitGlobalHotkeys
    \/ TogglePushToTalk
    \/ DisconnectInputSource
    \/ OnTrigger
    \/ RunPttPress
    \/ RunPttRelease

\* the application: push-to-talk switched on and off while its key goes down
\* and up
SpecPtt == PttInit /\ [][PttNext]_vars

\* a machine without pactl, after __init__'s field assignments
SessionInit ==
    /\ codec = NoCodec
    /\ env = [pactl_present |-> FALSE, xlib_available |-> TRUE,
              devices |-> <<"mic1", "mic2">>, default_source |-> "mic2"]
    /\ audio = NoAudio
    /\ xserver = NoXServer
    /\ engine = NoEngine
    /\ \E source \in {"", "mic1"}, ptt \in BOOLEAN :
        app = [NoApp EXCEPT !.init_pending = TRUE,
                            !.selected_input_source = source,
                            !.push_to_talk_enabled = ptt]
    /\ after_queue = <<>>
    /\ hist = NoHist
    /\ reg = NoReg

SessionNext ==
    \/ SetupAudioRouter
    \/ InitGlobalHotkeys
    \/ ToggleMicMute
    \/ ToggleSpeakersMute
    \/ ConnectSelectedInputSource
    \/ DisconnectInputSource
    \/ TogglePushToTalk
    \/ OnTrigger
    \/ RunPttPress
    \/ RunPttRelease

\* the application on a machine where the control tool is missing
SpecSession == SessionInit /\ [][SessionNext]_vars

\* the configuration edited while the capture engine runs, with or without
\* the control tool installed
ConfigInit ==
    /\ codec = NoCodec
    /\ \E present \in BOOLEAN :
        env = [pactl_present |-> present, xlib_available |-> TRUE,
               devices |-> <<>>, default_source |-> ""]
    /\ audio = NoAudio
    /\ xserver = NoXServer
    /\ engine = NoEngine
    /\ \E ptt \in BOOLEAN :
        app = [NoApp EXCEPT !.phase = "ready", !.init_pending = TRUE,
                            !.push_to_talk_enabled = ptt,
                            !.clips = <<H_Ctrl1>>,
                            !.profiles = [name \in ProfileNames |->
                                              IF name = "Default" THEN <<H_Ctrl1>>
                                              ELSE <<>>]]
    /\ after_queue = <<>>
    /\ hist = NoHist
    /\ reg = NoReg

ConfigNext ==
    \/ InitGlobalHotkeys
    \/ AddClips
    \/ RemoveSelected
    \/ EditHotkey
    \/ ClearSelectedHotkey
    \/ SwitchProfile
    \/ TogglePushToTalk
    \/ SetPttHotkey

\* the application: every handler that changes the hotkey configuration
SpecConfig == ConfigInit /\ [][ConfigNext]_vars

(***************************************************************************)
(* Properties of the chord codec (SpecCodec).                              *)
(***************************************************************************)
\* the chunks of a Tk event sequence "<A-B-Key-k>": the text between the
\* angle brackets, cut at each "-"
RECURSIVE SplitDash(_)
SplitDash(s) ==
    IF \A i \in 1..Len(s) : s[i] # "-" THEN <<s>>
    ELSE LET i == CHOOSE j \in 1..Len(s) :
                      s[j] = "-" /\ \A k \in 1..(j - 1) : s[k] # "-"
         IN  <<SubSeq(s, 1, i - 1)>> \o SplitDash(SubSeq(s, i + 1, Len(s)))

\* the modifier a Tk modifier name stands for
TkModifier(name) ==
    IF name = <<"C","o","n","t","r","o","l">> THEN "control"
    ELSE IF name = <<"A","l","t">> THEN "alt"
    ELSE IF name = <<"S","h","i","f","t">> THEN "shift"
    ELSE IF name = <<"M","o","d","4">> THEN "super"
    ELSE ""

\* a Tk event sequence read back: its modifiers and the key after "Key-"
TkRead(tk) ==
    LET chunks == SplitDash(SubSeq(tk, 2, Len(tk) - 1))
        n      == Len(chunks)
    IN  IF Len(tk) < 2 \/ tk[1] # "<" \/ tk[Len(tk)] # ">" \/ n < 2
        THEN NoParse
        ELSE IF chunks[n - 1] # <<"K","e","y">> THEN NoParse
        ELSE [ok   |-> TRUE,
              mods |-> {TkModifier(chunks[i]) : i \in 1..(n - 2)},
              key  |-> chunks[n]]

\* C9: two chord texts that name the same modifiers, in any order, letter case
\* and spelling (ctrl/control, super/win/mod4), before the same base key parse
\* to the same (modifier set, base key) result and give the same modifier mask
C9_ParseInsensitive ==
    codec.phase \in {"parsed", "serialized"}
        => /\ codec.partsA = codec.partsB
           /\ codec.maskA = codec.maskB

\* C9 witness: two different texts with two modifiers each were parsed
C9_Witness ==
    /\ codec.phase = "parsed"
    /\ codec.typedA # codec.typedB
    /\ codec.partsA.ok /\ codec.partsB.ok
    /\ Cardinality(codec.partsA.mods) = 2

SourceOf(m) == (CHOOSE i \in 1..Len(m.args) : m.args[i][1] = "source")

\* C3: after three calls of connect_input_source_to_soundpad in a row that
\* all returned success, exactly one mic-passthrough loopback exists and it
\* reads from the source of the last call
C3_OneLoopbackAfterThreeConnects ==
    (/\ hist.op = "connect_input_source_to_soundpad"
     /\ hist.call.oks = 3)
        => /\ Cardinality(MicLoops(audio.modules)) = 1
           /\ \A i \in MicLoops(audio.modules) :
                  audio.modules[i].args[SourceOf(audio.modules[i])][2] = hist.call.arg

\* C4: after two calls of ensure_virtual_mic in a row that both returned
\* success, the second call has loaded no module, and the module list holds
\* at most one module-null-sink for the sink name and at most one
\* module-remap-source for the source name
C4_EnsureVirtualMicIdempotent ==
    (/\ hist.op = "ensure_virtual_mic"
     /\ hist.call.oks >= 2)
        => /\ \A i \in 1..Len(hist.cmds) : hist.cmds[i].verb # "load-module"
           /\ Cardinality(VirtualSinks(audio.modules)) <= 1
           /\ Cardinality(VirtualSources(audio.modules)) <= 1


(***************************************************************************)
(* Properties of the application (Spec, SpecEngine).                       *)
(***************************************************************************)
ConnectThenDisconnect ==
    <<"connect_input_source_to_soundpad", "disconnect_input_source_from_soundpad">>

\* C1 as stated: for a push-to-talk press from Idle followed by the release,
\* the AudioRouter calls of _ptt_press and _ptt_release are always connect
\* then disconnect
C1_AlwaysConnectThenDisconnect ==
    hist.ptt.stage = "up" => hist.ptt.calls = ConnectThenDisconnect

\* C1 amended: with an input source selected the calls are connect then
\* disconnect, whether the connect succeeded or failed; with no
\* input source selected no connect is attempted and the only call is the
\* disconnect of the release; a disconnect never comes before a connect
C1_PttCallOrder ==
    hist.ptt.stage = "up"
        => hist.ptt.calls =
               IF hist.ptt.source = ""
               THEN <<"disconnect_input_source_from_soundpad">>
               ELSE ConnectThenDisconnect

\* C1 witness: a press whose connect attempt failed was followed by the release
C1_Witness ==
    /\ hist.op = "_ptt_release"
    /\ hist.ptt.stage = "up"
    /\ hist.ptt.source # ""
    /\ ~hist.ptt.ok
    /\ hist.ptt.calls = ConnectThenDisconnect

\* C2: in every reachable state of the device graph at most one
\* mic-passthrough loopback is loaded
C2_AtMostOneMicLoopback ==
    Cardinality(MicLoops(audio.modules)) <= 1

\* the tasks and the key events of the push-to-talk chord
IsPttTask(t) == t.fn \in {"_ptt_press", "_ptt_release"}

IsPttEdge(e) ==
    LET state == BitAnd(e.state, LoopStateMask)
    IN  /\ HasBinding(engine.bindings, e.detail, state)
        /\ BindingGet(engine.bindings, e.detail, state) = PttAction

\* C10: the edges of the push-to-talk chord reach the foreground queue in the
\* order the X server produced them and are processed in that order: the
\* push-to-talk tasks waiting in the queue are in edge order, and no
\* push-to-talk edge earlier than the one processed last is still waiting in
\* the queue or in the hands of a poll loop, so that a _ptt_release is never
\* processed before the _ptt_press it follows
C10_EdgesInOrder ==
    /\ \A i, j \in 1..Len(after_queue) :
           (i < j /\ IsPttTask(after_queue[i]) /\ IsPttTask(after_queue[j]))
               => after_queue[i].n < after_queue[j].n
    /\ hist.op \in {"_ptt_press", "_ptt_release"}
           => /\ \A i \in 1..Len(after_queue) :
                     IsPttTask(after_queue[i]) => after_queue[i].n > hist.last_n
              /\ \A e \in xserver.taken :
                     IsPttEdge(e) => e.n > hist.last_n

(***************************************************************************)
(* Properties of the hotkey configuration (SpecHotkeys, SpecEngine).       *)
(***************************************************************************)
\* C5: no two clips hold chords that parse identically
C5_NoTwoClipsSameChord ==
    \A i, j \in 1..NClips :
        (/\ i # j
         /\ hotkey_to_parts(app.clips[i]).ok
         /\ hotkey_to_parts(app.clips[j]).ok)
            => hotkey_to_parts(app.clips[i]) # hotkey_to_parts(app.clips[j])

\* C6: when start() is called and the backend is unavailable (python-xlib
\* missing, or the display cannot be opened), start() returns false, the
\* engine is Stopped afterwards (not running, no display), no poll thread
\* was started and no exception escaped
C6_StartDegraded ==
    (hist.start.called /\ ~hist.start.backend)
        => /\ ~hist.start.result
           /\ ~engine.running
           /\ engine.display = "None"
           /\ engine.threads <= hist.start.threads
           /\ ~app.global_hotkeys_active
           /\ ~hist.raised

\* C6 witness: start() was called without a usable backend
C6_Witness ==
    /\ hist.op = "toggle_global_hotkeys"
    /\ hist.start.called
    /\ ~hist.start.backend
    /\ ~hist.start.result

\* the clip other than idx that held "Alt+3" when "Shift+Alt+3" was assigned
\* to the clip idx by the last edit, 0 if there is none
Alt3Holder ==
    IF /\ hist.op = "set_selected_hotkey"
       /\ hist.edit.typed = H_ShiftAlt3
       /\ \E i \in 1..NClips : i # hist.edit.idx /\ hist.edit.before[i] = H_Alt3
    THEN CHOOSE i \in 1..NClips : i # hist.edit.idx /\ hist.edit.before[i] = H_Alt3
    ELSE 0

\* C7: "Shift+Alt+3" parses to the modifiers {shift, alt} and the key 3; when
\* it is assigned to a clip while another clip holds "Alt+3", the other
\* clip's hotkey is not cleared, and on a running engine both chords are
\* active in the binding table, each with its own clip's action, and neither
\* is in the conflict list
C7_ShiftAlt3BesideAlt3 ==
    /\ hotkey_to_parts(H_ShiftAlt3) = [ok |-> TRUE, mods |-> {"shift", "alt"},
                                       key |-> <<"3">>]
    /\ Alt3Holder # 0
        => /\ app.clips[Alt3Holder] = H_Alt3
           /\ app.clips[hist.edit.idx] = H_ShiftAlt3
           /\ app.global_hotkeys_active
                => /\ [keycode |-> 12, mask |-> Mod1Mask,
                       action |-> ClipAction(Alt3Holder - 1)] \in engine.bindings
                   /\ [keycode |-> 12, mask |-> Mod1Mask + ShiftMask,
                       action |-> ClipAction(hist.edit.idx - 1)] \in engine.bindings
                   /\ ~InSeq(H_Alt3, app.last_hotkey_conflicts)
                   /\ ~InSeq(H_ShiftAlt3, app.last_hotkey_conflicts)

\* C7 witness: "Shift+Alt+3" was assigned beside "Alt+3" on a running engine
C7_Witness ==
    /\ Alt3Holder # 0
    /\ app.global_hotkeys_active
    /\ engine.running
    /\ Cardinality({b \in engine.bindings : b.keycode = 12}) = 2


(***************************************************************************)
(* Properties of GlobalHotkeyManager (SpecRegister, SpecManager).          *)
(***************************************************************************)
\* the table the register() call in `reg` leaves when it returns
RegisterTarget ==
    RegisterAll([registered |-> <<>>, bindings |-> {}, conflicts |-> <<>>],
                reg.entries, xserver.foreign).bindings

\* C11: while register() runs, a poll thread that holds an event and is
\* about to look it up never faces a table that is neither the complete
\* table of before the call nor the complete new table
C11_TableSwapAtomic ==
    (reg.pc = "loop" /\ xserver.taken # {})
        => engine.bindings \in {reg.old, RegisterTarget}


\* the engine's fields apart from its threads
Fields(g) == <<g.running, g.display, g.registered, g.bindings>>

\* C16: stop() on an engine that is not running (never started, or stopped
\* before) changes none of its fields; stop() on a running engine leaves it
\* not running, with no grab held and the display closed and cleared
C16_StopSafe ==
    hist.op = "stop"
        => IF hist.g.running
           THEN /\ ~engine.running
                /\ engine.registered = <<>>
                /\ engine.display = "None"
           ELSE Fields(engine) = Fields(hist.g)

\* C16 witness: stop() was called on a running engine that held grabs
C16_Witness ==
    /\ hist.op = "stop"
    /\ hist.g.running /\ hist.g.registered # <<>>
    /\ ~engine.running

\* what register() computes for one binding: the parse, the key code, the
\* base mask and the four (key code, mask) pairs it tries to grab
EntryParse(e) == hotkey_to_parts(e.hotkey)
EntryKeycode(e) == keysym_to_keycode(EntryParse(e).key)
EntryMask(e) == modifier_mask(EntryParse(e).mods)
EntryVariants(e) ==
    {<<EntryKeycode(e), EntryMask(e) + LockVariants[i]>> : i \in 1..Len(LockVariants)}

\* the base key of the binding has a key code
Resolved(e) == EntryParse(e).ok /\ EntryKeycode(e) # 0
\* at least one of the four variants was grabbed
Grabbed(e) == Resolved(e) /\ EntryVariants(e) \ xserver.foreign # {}
\* the binding is in the action table
Active(e) ==
    \E b \in engine.bindings :
        b.keycode = EntryKeycode(e) /\ b.mask = EntryMask(e) /\ b.action = e.action
\* the chord's text is in the returned conflict list
Reported(e) == InSeq(e.hotkey, reg.conflicts)

\* register() has returned from a call on a running engine
Registered ==
    /\ hist.op = "register" /\ reg.pc = "idle"
    /\ engine.running /\ engine.display = "open"

\* of every resolved binding exactly the variants no other client holds are
\* grabbed, and nothing else is
GrabsPerVariant ==
    /\ \A i \in 1..Len(reg.entries) :
          Resolved(reg.entries[i])
              => \A v \in EntryVariants(reg.entries[i]) :
                     v \in Range(engine.registered) <=> v \notin xserver.foreign
    /\ \A v \in Range(engine.registered) :
          \E i \in 1..Len(reg.entries) :
              Resolved(reg.entries[i]) /\ v \in EntryVariants(reg.entries[i])

Shadowed(i) ==
    \E j \in (i + 1)..Len(reg.entries) :
        /\ Grabbed(reg.entries[j])
        /\ EntryKeycode(reg.entries[j]) = EntryKeycode(reg.entries[i])
        /\ EntryMask(reg.entries[j]) = EntryMask(reg.entries[i])

Disconnect == "disconnect_input_source_from_soundpad"

\* C12: a press processed from Idle with push-to-talk enabled leaves the
\* state Talking whatever the connect attempt gave, and the release that
\* follows leaves it Idle and calls disconnect exactly once
C12_OptimisticState ==
    /\ (hist.op = "_ptt_press" /\ hist.ptt.stage = "down") => app.ptt_pressed
    /\ (hist.op = "_ptt_release" /\ hist.ptt.stage = "up")
           => ~app.ptt_pressed /\ hist.calls = <<Disconnect>>

\* C12 witness: the release after a press whose connect attempt failed
C12_Witness ==
    /\ hist.op = "_ptt_release"
    /\ hist.ptt.stage = "up"
    /\ hist.ptt.source # "" /\ ~hist.ptt.ok
    /\ ~app.ptt_pressed
    /\ hist.calls = <<Disconnect>>


(***************************************************************************)
(* Properties of the push-to-talk state machine (SpecPtt).                 *)
(***************************************************************************)
\* the step is the foreground running the task fn from the head of its queue
TaskStep(fn) ==
    /\ after_queue # <<>>
    /\ Head(after_queue).fn = fn
    /\ after_queue' = Tail(after_queue)

\* the step runs a chord-down from Idle with push-to-talk enabled
PressFromIdle ==
    TaskStep("_ptt_press") /\ app.push_to_talk_enabled /\ ~app.ptt_pressed

\* the step runs a chord-up from Talking
ReleaseFromTalking == TaskStep("_ptt_release") /\ app.ptt_pressed

\* a chord-down from Idle gives Talking and a chord-up from Talking gives
\* Idle; a chord-down while Talking or disabled and a chord-up while Idle
\* change nothing and call no AudioRouter operation
ChordEdges ==
    /\ PressFromIdle => app'.ptt_pressed
    /\ ReleaseFromTalking => ~app'.ptt_pressed
    /\ (TaskStep("_ptt_press") /\ ~PressFromIdle)
           => app' = app /\ audio' = audio /\ hist'.calls = <<>>
    /\ (TaskStep("_ptt_release") /\ ~ReleaseFromTalking)
           => app' = app /\ audio' = audio /\ hist'.calls = <<>>

\* C13 as stated: the state changes only on a chord-down from Idle with
\* push-to-talk enabled and on a chord-up from Talking
C13_OnlyChordEdges ==
    [][/\ app'.ptt_pressed # app.ptt_pressed
           => PressFromIdle \/ ReleaseFromTalking
       /\ ChordEdges]_vars

\* C13 amended: besides the two chord edges, disconnect_input_source and
\* toggle_push_to_talk put a Talking state back to Idle; nothing else
\* changes the state, and the chord edges act as stated
C13_ChordEdgesAndResets ==
    [][/\ app'.ptt_pressed # app.ptt_pressed
           => \/ PressFromIdle
              \/ ReleaseFromTalking
              \/ /\ app.ptt_pressed
                 /\ hist'.op \in {"disconnect_input_source", "toggle_push_to_talk"}
       /\ ChordEdges]_vars

\* C13 witness: a chord-down was processed after push-to-talk had been
\* switched off, and did nothing
C13_Witness ==
    /\ hist.op = "_ptt_press"
    /\ hist.ptt.stage = "none"
    /\ hist.calls = <<>>
    /\ ~app.push_to_talk_enabled
    /\ ~app.ptt_pressed


(***************************************************************************)
(* Properties of the error handling (SpecRouter, SpecSession).             *)
(***************************************************************************)
\* C14: no public operation of AudioRouter ends with an exception leaving
\* it; each returns its outcome, also when the pactl executable is absent
C14_NoExceptionEscapes ==
    hist.op \in {"ensure_virtual_mic", "connect_input_source_to_soundpad",
                 "disconnect_input_source_from_soundpad"}
        => ~hist.raised


\* C15: on a machine without pactl no handler of the session lets an
\* AudioRouter operation reach the point of invoking pactl (where
\* subprocess.run raises)
C15_RoutingDisabled ==
    ~env.pactl_present => ~hist.raised


(***************************************************************************)
(* Properties of the grant table (SpecEngine).                             *)
(***************************************************************************)
\* a grant key has at most one action
GrantKeysUnique ==
    \A b1, b2 \in engine.bindings :
        (b1.keycode = b2.keycode /\ b1.mask = b2.mask) => b1.action = b2.action

\* every grab held maps, through the masking of the loop, to the action of a
\* binding of the configuration whose chord it is a lock-state variant of
VariantsMapToChord ==
    \A g \in Range(engine.registered) :
        LET state   == BitAnd(g[2], LoopStateMask)
            entries == HotkeyEntries(app)
        IN  /\ HasBinding(engine.bindings, g[1], state)
            /\ \E i \in 1..Len(entries) :
                  /\ Resolved(entries[i])
                  /\ g \in EntryVariants(entries[i])
                  /\ BindingGet(engine.bindings, g[1], state) = entries[i].action

KeyEvent(type, detail, state) ==
    [type |-> type, detail |-> detail, state |-> state, n |-> 0]

\* an event of a bound key under any lock state gives what on_trigger gives
\* for the binding's action
LockStateIgnored ==
    \A b \in engine.bindings, i \in 1..Len(LockVariants),
       type \in {"KeyPress", "KeyRelease"} :
        loop_dispatch(<<>>, engine.bindings,
                      KeyEvent(type, b.keycode, b.mask + LockVariants[i]))
            = on_global_hotkey(<<>>, b.action, type = "KeyPress", 0)

\* C18: at most one action per grant key; all lock-state variants grabbed
\* for a chord map to that chord's action; an event that differs from the
\* chord by lock-modifier bits only dispatches the same action
C18_GrantTable ==
    /\ GrantKeysUnique
    /\ VariantsMapToChord
    /\ LockStateIgnored

\* C18 witness: the push-to-talk key is held down with NumLock on, and its
\* press, the latest edge, was handed to the foreground as _ptt_press
C18_Witness ==
    \E g \in xserver.held :
        /\ BitAnd(g[2], Mod2Mask) # 0
        /\ HasBinding(engine.bindings, g[1], BitAnd(g[2], LoopStateMask))
        /\ BindingGet(engine.bindings, g[1], BitAnd(g[2], LoopStateMask)) = PttAction
        /\ \E k \in 1..Len(after_queue) :
              after_queue[k].fn = "_ptt_press" /\ after_queue[k].n = xserver.n


(***************************************************************************)
(* Properties of cancellation (SpecEngineFair).                            *)
(***************************************************************************)
\* the poll loops alive are those the engine's state accounts for: the one
\* started by the last start() while Running, none while Stopped
NoAbandonedLoop == engine.threads <= (IF engine.running THEN 1 ELSE 0)

\* C19: once stop() has cleared the running flag with the poll loop still
\* alive, that loop eventually exits
C19_LoopEventuallyExits ==
    (~engine.running /\ engine.threads > 0) ~> NoAbandonedLoop


(***************************************************************************)
(* Properties of the configuration handlers (SpecConfig).                  *)
(***************************************************************************)
ConfigOps ==
    {"add_clips", "remove_selected", "set_selected_hotkey", "clear_selected_hotkey",
     "switch_profile", "toggle_push_to_talk", "set_ptt_hotkey"}

\* the entry at i is the one the table keeps for its chord: one of its
\* variants can be grabbed and no later entry has the same key code and mask
Wins(entries, i) ==
    /\ Grabbed(entries[i])
    /\ \A j \in (i + 1)..Len(entries) :
          ~(/\ Grabbed(entries[j])
            /\ EntryKeycode(entries[j]) = EntryKeycode(entries[i])
            /\ EntryMask(entries[j]) = EntryMask(entries[i]))

\* the table derived from the current configuration: the clips with a
\* hotkey, the reserved stop chord, and the push-to-talk chord if and only
\* if push-to-talk is enabled
DerivedTable ==
    LET entries == HotkeyEntries(app)
    IN  { [keycode |-> EntryKeycode(entries[i]), mask |-> EntryMask(entries[i]),
           action |-> entries[i].action] :
          i \in {k \in 1..Len(entries) : Wins(entries, k)} }

\* C20: while the engine is Running, after each configuration change the
\* binding table equals the table derived from the current configuration
C20_TableFollowsConfiguration ==
    (engine.running /\ hist.op \in ConfigOps) => engine.bindings = DerivedTable

\* the same with the control tool installed
TableFollowsConfigurationWithTool ==
    env.pactl_present => C20_TableFollowsConfiguration

(***************************************************************************)
(* Properties of AudioRouter's disconnect and monitor operations.          *)
(***************************************************************************)
\* the last call issued an unload-module command
UnloadIssued == \E i \in 1..Len(hist.cmds) : hist.cmds[i].verb = "unload-module"

\* C21: a disconnect_input_source_from_soundpad() that found a
\* mic-passthrough loopback and unloaded it with success leaves no
\* mic-passthrough loopback
C21_DisconnectLeavesNone ==
    (/\ hist.op = "disconnect_input_source_from_soundpad"
     /\ hist.call.status = "ok"
     /\ UnloadIssued)
        => MicLoops(audio.modules) = {}

MonitorNext ==
    \/ CallEnsureLocalMonitor
    \/ CallUnloadMonitor
    \/ CallConnect
    \/ CallDisconnect

\* AudioRouter's monitor and passthrough operations, under any sequence of calls
SpecMonitor == RouterInit /\ [][MonitorNext]_vars

\* C22: after any sequence of calls the sound server holds at most one
\* speaker-monitor loopback
C22_AtMostOneMonitor == Cardinality(MonitorLoops(audio.modules)) <= 1

\* the module list without the module `id`
Without(ms, id) == SelectSeq(ms, LAMBDA m : m.id # id)

\* C23: unload_monitor() with no id remembered returns success, issues no
\* command and changes nothing; with an id remembered it issues exactly the
\* unload of that id, and then either returns success with the module gone
\* and the id cleared, or returns failure with the id and the modules kept
C23_UnloadMonitor ==
    [][hist'.op = "unload_monitor" =>
        IF audio.router.monitor_module_id = 0
        THEN /\ hist'.call.status = "ok"
             /\ hist'.cmds = <<>>
             /\ audio' = audio
        ELSE /\ hist'.cmds = <<CmdUnload(audio.router.monitor_module_id)>>
             /\ \/ /\ hist'.call.status = "ok"
                   /\ audio'.router =
                          [audio.router EXCEPT !.monitor_module_id = 0]
                   /\ audio'.modules =
                          Without(audio.modules, audio.router.monitor_module_id)
                   /\ audio'.modules # audio.modules
                \/ /\ hist'.call.status = "fail"
                   /\ audio' = audio
    ]_vars

\* an unload_monitor() that unloaded the remembered module
C23_Witness ==
    /\ hist.op = "unload_monitor"
    /\ hist.call.status = "ok"
    /\ UnloadIssued
    /\ audio.router.monitor_module_id = 0

(***************************************************************************)
(* The settings payload: SoundpadApp._parse_profiles_payload.              *)
(*                                                                         *)
(* A decoded JSON value is a record.  A scalar under a key is              *)
(* [kind, text]: "absent" (no such key), "str" (a string) or "null"; a     *)
(* clip is [isdict, path, label, hotkey]; a profile entry is               *)
(* [name, isstr, islist, items], entries in the dictionary's order; the    *)
(* payload is [kind, items, profiles_isdict, entries, current] with kind   *)
(* "list", "dict" or "other".                                              *)
(***************************************************************************)
Absent == [kind |-> "absent", text |-> <<>>]
Null   == [kind |-> "null", text |-> <<>>]
Str(t) == [kind |-> "str", text |-> t]

\* str(d.get(key, default)) for the scalar v under the key
PyStr(v, default) ==
    IF v.kind = "absent" THEN default
    ELSE IF v.kind = "null" THEN <<"N","o","n","e">>
    ELSE v.text

\* the characters of the texts used, in code point order
AsciiChars ==
    <<" ", ".", "/", "0","1","2","3","4","5","6","7","8","9">>
    \o UpperChars \o LowerChars

Ord(c) == CHOOSE i \in 1..Len(AsciiChars) : AsciiChars[i] = c

\* a <= b for two str values
RECURSIVE TextLeq(_, _)
TextLeq(a, b) ==
    IF a = <<>> THEN TRUE
    ELSE IF b = <<>> THEN FALSE
    ELSE IF a[1] # b[1] THEN Ord(a[1]) < Ord(b[1])
    ELSE TextLeq(Tail(a), Tail(b))

\* the last position of character c in s, 0 if there is none
LastIndexOf(s, c) ==
    IF \A i \in 1..Len(s) : s[i] # c THEN 0
    ELSE CHOOSE i \in 1..Len(s) : s[i] = c /\ \A j \in (i + 1)..Len(s) : s[j] # c

\* pathlib: Path(path).name, the part after the last separator
PathName(path) == SubSeq(path, LastIndexOf(path, "/") + 1, Len(path))

\* pathlib: Path(path).stem, the name without its last suffix
PathStem(path) ==
    LET cut(name, i) == IF 1 < i /\ i < Len(name) THEN SubSeq(name, 1, i - 1) ELSE name
        stem(name) == cut(name, LastIndexOf(name, "."))
    IN  stem(PathName(path))

NoClip == [ok |-> FALSE, label |-> <<>>, path |-> <<>>, hotkey |-> <<>>]

\* a plausible slip: the label is taken as written, without the stem fallback
normalize_clip_no_stem(clip) ==
    LET made(path) ==
            IF path = <<>> THEN NoClip
            ELSE [ok |-> TRUE, label |-> Strip(PyStr(clip.label, <<>>)),
                  path |-> path, hotkey |-> Strip(PyStr(clip.hotkey, <<>>))]
    IN  IF ~clip.isdict \/ clip.path.kind = "absent" THEN NoClip
        ELSE made(Strip(PyStr(clip.path, <<>>)))

\* SoundpadApp._normalize_clip: the clip, or None (NoClip)
normalize_clip(clip) ==
    LET labelled(label, path) == IF label # <<>> THEN label ELSE PathStem(path)
        made(path) ==
            IF path = <<>> THEN NoClip
            ELSE [ok |-> TRUE, label |-> labelled(Strip(PyStr(clip.label, <<>>)), path),
                  path |-> path, hotkey |-> Strip(PyStr(clip.hotkey, <<>>))]
    IN  IF ~clip.isdict \/ clip.path.kind = "absent" THEN NoClip
        ELSE made(Strip(PyStr(clip.path, <<>>)))

\* the loop over a clip list: the normalized clips, in order
RECURSIVE NormalizeClips(_)
NormalizeClips(items) ==
    IF items = <<>> THEN <<>>
    ELSE LET keep(n) == IF n.ok THEN <<[label |-> n.label, path |-> n.path,
                                        hotkey |-> n.hotkey]>>
                        ELSE <<>>
         IN  keep(normalize_clip(items[1])) \o NormalizeClips(Tail(items))

\* profiles[name] = clips on a dict
DictSet(profiles, name, clips) ==
    [n \in DOMAIN profiles \cup {name} |-> IF n = name THEN clips ELSE profiles[n]]

EmptyDict == [n \in {} |-> <<>>]

\* the loop over data["profiles"].items()
RECURSIVE AddProfiles(_, _)
AddProfiles(profiles, entries) ==
    IF entries = <<>> THEN profiles
    ELSE LET e == entries[1]
             add(clean_name) ==
                 IF clean_name = <<>> THEN profiles
                 ELSE DictSet(profiles, clean_name, NormalizeClips(e.items))
         IN  AddProfiles(IF ~e.isstr \/ ~e.islist THEN profiles ELSE add(Strip(e.name)),
                         Tail(entries))

T_Default == <<"D","e","f","a","u","l","t">>

\* sorted(profiles.keys())[0]
FirstKey(profiles) ==
    CHOOSE k \in DOMAIN profiles : \A j \in DOMAIN profiles : TextLeq(k, j)

\* SoundpadApp._parse_profiles_payload: (profiles, current_name)
parse_profiles_payload(data) ==
    LET finish(profiles, current_name) ==
            IF DOMAIN profiles = {}
            THEN [profiles |-> DictSet(EmptyDict, T_Default, <<>>), current |-> T_Default]
            ELSE IF current_name \notin DOMAIN profiles
                 THEN [profiles |-> profiles, current |-> FirstKey(profiles)]
            ELSE [profiles |-> profiles, current |-> current_name]
        named(requested) == IF requested # <<>> THEN requested ELSE T_Default
    IN  IF data.kind = "list"
        THEN finish(DictSet(EmptyDict, T_Default, NormalizeClips(data.items)), T_Default)
        ELSE IF data.kind = "dict" /\ data.profiles_isdict
             THEN finish(AddProfiles(EmptyDict, data.entries),
                         named(Strip(PyStr(data.current, T_Default))))
        ELSE finish(EmptyDict, T_Default)

(***************************************************************************)
(* Payloads.                                                               *)
(***************************************************************************)
T_Gaming == <<"G","a","m","i","n","g">>
T_Work   == <<"W","o","r","k">>
P_a      == <<"/","t","m","p","/","a",".","w","a","v">>
P_b      == <<"/","t","m","p","/","b",".","w","a","v">>
P_c      == <<"/","t","m","p","/","c",".","w","a","v">>

Clip(path, label, hotkey) ==
    [isdict |-> TRUE, path |-> path, label |-> label, hotkey |-> hotkey]

NotAClip == [isdict |-> FALSE, path |-> Absent, label |-> Absent, hotkey |-> Absent]

\* the three clips of run_headless_check, and clips that are not a
\* dictionary, have no path, a blank path, a padded path, a blank label, a
\* null label, or a file name without a suffix or starting with a dot
ClipValues ==
    { Clip(Str(P_a), Str(<<"a","i","r","h","o","r","n">>), Str(H_Alt1)),
      Clip(Str(P_b), Absent, Absent),
      Clip(Str(P_c), Str(<<"l","e","g","a","c","y">>), Absent),
      NotAClip,
      Clip(Absent, Str(<<"x">>), Absent),
      Clip(Str(<<" ">>), Absent, Absent),
      Clip(Str(<<" ">> \o P_b \o <<" ">>), Str(<<" ">>), Absent),
      Clip(Str(P_b), Null, Absent),
      Clip(Str(<<"c">>), Absent, Absent),
      Clip(Str(<<"/",".","r","c">>), Str(<<>>), Absent) }

\* clip lists of at most MaxClips clips
MaxClips == 2

ClipLists ==
    UNION {[1..n -> ClipValues] : n \in 0..MaxClips}

\* the clip lists a profile of a profiles dictionary holds
ProfileLists ==
    { <<>>,
      <<Clip(Str(P_a), Str(<<"a","i","r","h","o","r","n">>), Str(H_Alt1))>>,
      <<Clip(Str(P_b), Absent, Absent)>>,
      <<NotAClip, Clip(Str(<<" ">> \o P_b \o <<" ">>), Str(<<" ">>), Absent)>> }

ProfileEntry(name, isstr, islist, items) ==
    [name |-> name, isstr |-> isstr, islist |-> islist, items |-> items]

\* keys of a profiles dictionary: names, a padded name, a blank name, and a
\* key that is not a string
EntryKeys ==
    { [name |-> T_Gaming, isstr |-> TRUE],
      [name |-> <<" ">> \o T_Gaming, isstr |-> TRUE],
      [name |-> T_Work, isstr |-> TRUE],
      [name |-> T_Default, isstr |-> TRUE],
      [name |-> <<" ">>, isstr |-> TRUE],
      [name |-> <<"7">>, isstr |-> FALSE] }

EntryValues ==
    {ProfileEntry(k.name, k.isstr, TRUE, items) : k \in EntryKeys, items \in ProfileLists}
    \cup {ProfileEntry(k.name, k.isstr, FALSE, <<>>) : k \in EntryKeys}

\* dictionaries of at most MaxProfiles entries, their keys distinct
MaxProfiles == 2

EntryLists ==
    {es \in UNION {[1..n -> EntryValues] : n \in 0..MaxProfiles} :
        \A i, j \in 1..Len(es) :
            i # j => <<es[i].name, es[i].isstr>> # <<es[j].name, es[j].isstr>>}

\* values of "current_profile"
CurrentValues ==
    { Absent, Null, Str(T_Gaming), Str(T_Gaming \o <<" ">>), Str(T_Work),
      Str(<<>>), Str(<<"N","o","p","e">>) }

Payload(kind, items, profiles_isdict, entries, current) ==
    [kind |-> kind, items |-> items, profiles_isdict |-> profiles_isdict,
     entries |-> entries, current |-> current]

\* legacy lists, dictionaries with a profiles dictionary, dictionaries whose
\* "profiles" is missing or not a dictionary, and values that are neither
\* (None after a failed json.loads, a number, a string)
Payloads ==
    {Payload("list", items, FALSE, <<>>, Absent) : items \in ClipLists}
    \cup {Payload("dict", <<>>, TRUE, es, cur) : es \in EntryLists, cur \in CurrentValues}
    \cup {Payload("dict", <<>>, FALSE, <<>>, cur) : cur \in CurrentValues}
    \cup {Payload("other", <<>>, FALSE, <<>>, Absent)}

ProfilesInit ==
    /\ \E data \in Payloads :
        codec = [phase |-> "payload", data |-> data,
                 profiles |-> EmptyDict, current |-> <<>>]
    /\ env = [pactl_present |-> TRUE, xlib_available |-> TRUE,
              devices |-> <<>>, default_source |-> ""]
    /\ audio = NoAudio
    /\ xserver = NoXServer
    /\ engine = NoEngine
    /\ app = NoApp
    /\ after_queue = <<>>
    /\ hist = NoHist
    /\ reg = NoReg

\* the payload goes through _parse_profiles_payload
ParseProfilesPayload ==
    /\ codec.phase = "payload"
    /\ codec' = [codec EXCEPT
           !.phase = "parsed",
           !.profiles = parse_profiles_payload(codec.data).profiles,
           !.current = parse_profiles_payload(codec.data).current]
    /\ UNCHANGED <<reg, env, audio, xserver, engine, app, after_queue, hist>>

\* the settings parser on every payload
SpecProfiles == ProfilesInit /\ [][ParseProfilesPayload]_vars

(* Properties of the settings parser. *)
\* a clip the parser keeps: a dictionary with a path that is not blank
KeptClip(clip) ==
    clip.isdict /\ clip.path.kind = "str" /\ Strip(clip.path.text) # <<>>

\* a clip without a label: no "label" key, or a blank one
Unlabelled(clip) ==
    clip.label.kind = "absent" \/ (clip.label.kind = "str" /\ Strip(clip.label.text) = <<>>)

\* the clips of a returned profile are the kept clips of the list it was
\* read from, in order, and each unlabelled one is labelled with the stem
\* of its file name
StemLabels(items, clips) ==
    LET kept == SelectSeq(items, KeptClip)
    IN  /\ Len(clips) = Len(kept)
        /\ \A k \in 1..Len(kept) :
            /\ clips[k].path = Strip(kept[k].path.text)
            /\ Unlabelled(kept[k]) => clips[k].label = PathStem(clips[k].path)
            /\ ~Unlabelled(kept[k]) /\ kept[k].label.kind = "str"
                   => clips[k].label = Strip(kept[k].label.text)

\* the entry of the payload's profiles dictionary that names a profile
NamesProfile(e) == e.isstr /\ e.islist /\ Strip(e.name) # <<>>

NewPairs ==
    UNION {EntryVariants(reg.entries[i]) :
               i \in {k \in 1..Len(reg.entries) : Resolved(reg.entries[k])}}

\* C25: after a register() on a running engine every grab held was made for
\* the new binding list, none is left over from the list of before; a
\* register() on an engine that is not running leaves the grabs and the
\* other fields as they were and returns an empty conflict list
C25_RegisterReleasesFirst ==
    (hist.op = "register" /\ reg.pc = "idle")
        => IF hist.g.running /\ hist.g.display = "open"
           THEN /\ Range(engine.registered) \subseteq NewPairs \ xserver.foreign
                /\ \A p \in Range(hist.g.registered) \ NewPairs :
                       p \notin Range(engine.registered)
           ELSE /\ Fields(engine) = Fields(hist.g)
                /\ reg.conflicts = <<>>

\* a register() on a running engine that held grabs the new list does not ask for
C25_Witness ==
    /\ hist.op = "register" /\ reg.pc = "idle"
    /\ hist.g.running /\ hist.g.display = "open"
    /\ Range(hist.g.registered) \ NewPairs # {}
    /\ engine.registered # <<>>

(***************************************************************************)
(* The poll loop's exception path.                                         *)
(***************************************************************************)
\* a plausible slip: the exception is not caught and ends the thread
loop_except_dies(g) == [g EXCEPT !.threads = @ - 1]

\* `except Exception: time.sleep(0.1)`: the thread goes back to the loop
\* condition, the engine is left as it is
loop_except(g) == g

\* an exception is raised while a poll thread handles the event it holds
\* (in the lookup or in on_trigger): the event is lost, no task is queued
LoopError ==
    /\ \E event \in xserver.taken :
        xserver' = [xserver EXCEPT !.taken = @ \ {event},
                                   !.dropped = @ \cup {event.n}]
    /\ engine' = loop_except(engine)
    /\ UNCHANGED <<codec, reg, env, audio, app, after_queue, hist>>

LoopNext ==
    \/ InitGlobalHotkeys
    \/ ToggleGlobalHotkeys
    \/ KeyDown
    \/ KeyUp
    \/ LoopTake
    \/ LoopDispatch
    \/ LoopError
    \/ LoopExit
    \/ RunPttPress
    \/ RunPttRelease
    \/ RunStopPlayback

\* the capture engine with exceptions raised inside the poll loop
SpecLoop == EngineInit /\ [][LoopNext]_vars

\* C26: whenever the engine is running, a poll loop is alive
C26_LoopAlive ==
    (engine.running /\ engine.display = "open") => engine.threads >= 1

\* an exception ended the pass for one key edge, the engine is still
\* running, and the loop went on to dispatch a later edge
C26_Witness ==
    /\ engine.running /\ engine.display = "open"
    /\ engine.threads >= 1
    /\ \E d \in xserver.dropped, i \in 1..Len(after_queue) : after_queue[i].n > d

\* C27: at most one poll-loop thread is alive at any time
C27_OneLoopThread == engine.threads <= 1

(* Properties of the hand-over from the poll thread to the foreground. *)
\* a step of a poll thread: it takes an event, dispatches the event it
\* holds, or leaves its loop
PollStep ==
    \/ xserver'.taken # xserver.taken
    \/ /\ engine'.threads < engine.threads
       /\ engine'.running = engine.running
       /\ engine'.display = engine.display

\* the tasks _on_global_hotkey queues for the edge `event`
EdgeTasks(event) ==
    {[fn |-> fn, idx |-> idx, n |-> event.n] :
        fn \in {"stop_playback", "_ptt_press", "_ptt_release", "play_index"},
        idx \in -1..(NClips - 1)}

\* the handlers the foreground thread runs
ForegroundOps ==
    {"_setup_audio_router", "_init_global_hotkeys", "connect_selected_input_source",
     "disconnect_input_source", "_ptt_press", "_ptt_release", "stop_playback",
     "play_index", "_on_close"}

\* C28: a step of the poll thread changes neither the module graph, nor the
\* router's or the application's fields (push-to-talk state included), nor
\* the record of the router operations called; at most it appends one task
\* for the edge it held to the foreground's queue.  Every change of the
\* module graph or of the push-to-talk state is a step of a foreground
\* handler
C28_PollOnlyEnqueues ==
    [][/\ PollStep =>
            /\ audio' = audio /\ app' = app /\ hist' = hist
            /\ \/ after_queue' = after_queue
               \/ \E event \in xserver.taken \ xserver'.taken :
                      \E task \in EdgeTasks(event) :
                          after_queue' = Append(after_queue, task)
       /\ (audio' # audio \/ app'.ptt_pressed # app.ptt_pressed) =>
            /\ hist'.op \in ForegroundOps
            /\ ~PollStep
      ]_vars

\* the poll thread has handed over a push-to-talk press that the foreground
\* has not run yet: the task is queued, push-to-talk is still up and no
\* mic-passthrough loopback is loaded
C28_Witness ==
    /\ app.push_to_talk_enabled /\ ~app.ptt_pressed
    /\ after_queue # <<>> /\ Head(after_queue).fn = "_ptt_press"
    /\ MicLoops(audio.modules) = {}
    /\ engine.running

(* Properties of connect and disconnect as steps (SpecRouter, SpecMonitor). *)
\* the ids of the modules the call unloaded or tried to unload
UnloadIds(cmds) ==
    {cmds[i].id : i \in {k \in 1..Len(cmds) : cmds[k].verb = "unload-module"}}

LoadIssued(cmds) == \E i \in 1..Len(cmds) : cmds[i].verb = "load-module"

\* the ids of the modules loaded in the sound server
LoadedIds(a) == {a.modules[i].id : i \in 1..Len(a.modules)}

\* C29: a connect_input_source_to_soundpad() that found a mic-passthrough
\* loopback and could not unload it returns failure, issues no load-module
\* and leaves the module list and the router's fields as they were
C29_FailedUnloadAborts ==
    [][(/\ hist'.op = "connect_input_source_to_soundpad"
        /\ UnloadIds(hist'.cmds) \cap LoadedIds(audio') # {})
           => /\ hist'.call.status = "fail"
              /\ ~LoadIssued(hist'.cmds)
              /\ audio' = audio
      ]_vars

\* a connect that ended at the failed unload
C29_Witness ==
    /\ hist.op = "connect_input_source_to_soundpad"
    /\ hist.call.status = "fail"
    /\ UnloadIds(hist.cmds) \cap LoadedIds(audio) # {}
    /\ ~LoadIssued(hist.cmds)

\* the modules connect and disconnect have to leave alone: the virtual sink,
\* the virtual source and every loopback fed by the sink's monitor
Protected(m) ==
    \/ m.name = "module-null-sink"
    \/ m.name = "module-remap-source"
    \/ /\ m.name = "module-loopback"
       /\ \E i \in 1..Len(m.args) : m.args[i] = <<"source", SINK_MONITOR>>

\* a loopback from a real input device into the virtual sink
Passthrough(m) ==
    /\ m.name = "module-loopback"
    /\ \E i \in 1..Len(m.args) : m.args[i] = <<"sink", SINK_NAME>>
    /\ \E i \in 1..Len(m.args) : m.args[i][1] = "source" /\ m.args[i][2] \in RealSources

\* the module of the list `ms` with the id `id` satisfies P
ModuleIs(ms, id, P(_)) == \E i \in 1..Len(ms) : ms[i].id = id /\ P(ms[i])

\* C30: a connect or disconnect step leaves the virtual sink, the virtual
\* source and the speaker-monitor loopback loaded and unchanged, and the ids
\* the router remembers for them too; the module it unloads or tries to
\* unload is a loopback from an input device into the virtual sink; and the
\* module an ensure_local_monitor() adopts is a loopback fed by the sink's
\* monitor, never a passthrough
C30_RolesKeptApart ==
    [][/\ hist'.op \in {"connect_input_source_to_soundpad",
                        "disconnect_input_source_from_soundpad"} =>
            /\ SelectSeq(audio'.modules, Protected) = SelectSeq(audio.modules, Protected)
            /\ audio'.router.sink_module_id = audio.router.sink_module_id
            /\ audio'.router.source_module_id = audio.router.source_module_id
            /\ audio'.router.monitor_module_id = audio.router.monitor_module_id
            /\ \A id \in UnloadIds(hist'.cmds) : ModuleIs(audio.modules, id, Passthrough)
       /\ (/\ hist'.op = "ensure_local_monitor"
           /\ hist'.call.status = "ok"
           /\ ~LoadIssued(hist'.cmds)) =>
            /\ ModuleIs(audio.modules, audio'.router.monitor_module_id, Protected)
            /\ ~ModuleIs(audio.modules, audio'.router.monitor_module_id, Passthrough)
            /\ audio'.modules = audio.modules
      ]_vars

\* a disconnect unloaded the passthrough while the speaker-monitor loopback
\* the router remembers, the virtual sink and the virtual source were loaded
C30_Witness ==
    /\ hist.op = "disconnect_input_source_from_soundpad"
    /\ hist.call.status = "ok"
    /\ UnloadIds(hist.cmds) # {}
    /\ MonitorLoops(audio.modules) # {}
    /\ VirtualSinks(audio.modules) # {} /\ VirtualSources(audio.modules) # {}
    /\ audio.router.monitor_module_id # 0

(***************************************************************************)
(* The message ensure_virtual_mic returns with a failure.                  *)
(***************************************************************************)
\* a plausible slip: stdout is preferred to stderr
FailureMessage_stdout_first(output) ==
    IF Strip(output.stdout) # <<>> THEN Strip(output.stdout) ELSE Strip(output.stderr)

\* `result.stderr.strip() or result.stdout.strip()`
FailureMessage(output) ==
    IF Strip(output.stderr) # <<>> THEN Strip(output.stderr) ELSE Strip(output.stdout)

T_Ready == <<"R","e","a","d","y">>

\* the second component of what ensure_virtual_mic returns, `out` being the
\* output of the load command that exits non-zero
ensure_virtual_mic_message(w, present, o, out) ==
    LET told(r) == IF r.status = "fail" THEN FailureMessage(out)
                   ELSE IF r.status = "ok" THEN T_Ready
                   ELSE <<>>
    IN  told(ensure_virtual_mic(w, present, o))

\* what a failing load-module writes: nothing, blanks, or a text, on either
\* stream
LoadOutputs ==
    [stderr : {<<>>, <<" ">>, <<"e", " ">>}, stdout : {<<>>, <<" ", "o">>}]

CallEnsureVirtualMicMessage ==
    \E o \in Exits2, out \in LoadOutputs :
        RouterCall("ensure_virtual_mic", "",
                   ensure_virtual_mic(World, env.pactl_present, o),
                   [text |-> ensure_virtual_mic_message(World, env.pactl_present, o, out),
                    o |-> o, out |-> out])

VirtualMicNext ==
    \/ CallEnsureVirtualMicMessage
    \/ CallDisconnect

\* ensure_virtual_mic with the outputs of its commands, between disconnects
SpecVirtualMic == RouterInit /\ [][VirtualMicNext]_vars

(* Properties of ensure_virtual_mic's failures. *)
\* the number of load-module commands for the module `what` in the log
LoadsOf(cmds, what) ==
    Cardinality({i \in 1..Len(cmds) : cmds[i] = CmdLoad(what)})

\* stderr without the blanks around it, or else stdout without them
StderrElseStdout(output) ==
    IF \E i \in 1..Len(output.stderr) : output.stderr[i] # " "
    THEN Strip(output.stderr) ELSE Strip(output.stdout)

\* C31: a call of ensure_virtual_mic() issues each of its two load commands
\* at most once; if the sink load exits non-zero the call returns failure
\* with that command's stderr, or else stdout, as message and the source
\* load is not issued; if the source load exits non-zero the call returns
\* failure with that command's stderr, or else stdout, as message
C31_LoadFailureReported ==
    hist.op = "ensure_virtual_mic" =>
        /\ LoadsOf(hist.cmds, "module-null-sink") <= 1
        /\ LoadsOf(hist.cmds, "module-remap-source") <= 1
        /\ (LoadsOf(hist.cmds, "module-null-sink") = 1 /\ ~hist.call.msg.o.load1) =>
               /\ hist.call.status = "fail"
               /\ hist.call.msg.text = StderrElseStdout(hist.call.msg.out)
               /\ LoadsOf(hist.cmds, "module-remap-source") = 0
        /\ (LoadsOf(hist.cmds, "module-remap-source") = 1 /\ ~hist.call.msg.o.load2) =>
               /\ hist.call.status = "fail"
               /\ hist.call.msg.text = StderrElseStdout(hist.call.msg.out)
        /\ hist.call.status = "fail" =>
               \/ LoadsOf(hist.cmds, "module-null-sink") = 1 /\ ~hist.call.msg.o.load1
               \/ LoadsOf(hist.cmds, "module-remap-source") = 1 /\ ~hist.call.msg.o.load2

\* the source load failed after the sink load succeeded, with blanks on
\* stderr and a text on stdout: the message is the text of stdout
C31_Witness ==
    /\ hist.op = "ensure_virtual_mic"
    /\ hist.call.status = "fail"
    /\ LoadsOf(hist.cmds, "module-null-sink") = 1
    /\ LoadsOf(hist.cmds, "module-remap-source") = 1
    /\ hist.call.msg.out.stderr = <<" ">>
    /\ hist.call.msg.text = <<"o">>

(* Properties of register() on chord texts that do not parse. *)
\* the words _hotkey_to_parts accepts before the base key
ModifierWords == {W_ctrl, W_control, W_alt, W_shift, W_super, W_win, W_mod4}

\* the chord text has, before its last token, a token that is no modifier word
HasUnknownModifier(text) ==
    LET parts == StripNonEmpty(SplitPlus(Strip(text)))
    IN  \E i \in 1..(Len(parts) - 1) : Lower(parts[i]) \notin ModifierWords

\* C32: a chord text with an unrecognized modifier token does not parse, no
\* part of it is kept, and a register() on a running engine makes no
\* key-code lookup and no grab for a binding whose text does not parse
C32_UnparsedNotTouched ==
    (hist.op = "register" /\ reg.pc = "idle")
        => \A i \in 1..Len(reg.entries) :
               /\ HasUnknownModifier(reg.entries[i].hotkey)
                      => EntryParse(reg.entries[i]) = NoParse
               /\ ~EntryParse(reg.entries[i]).ok
                      => \A k \in 1..Len(reg.backend) :
                             reg.backend[k].hotkey # reg.entries[i].hotkey

\* a register() on a running engine whose list holds a chord with an
\* unrecognized modifier token next to chords it looked up and grabbed
C32_Witness ==
    /\ hist.op = "register" /\ reg.pc = "idle"
    /\ hist.g.running /\ hist.g.display = "open"
    /\ \E i \in 1..Len(reg.entries) : HasUnknownModifier(reg.entries[i].hotkey)
    /\ \E k \in 1..Len(reg.backend) : reg.backend[k].call = "grab_key"

(***************************************************************************)
(* The base key of a chord, from the typed text to the key symbol name.    *)
(***************************************************************************)
\* base-key tokens as a user types them: single characters (a letter in
\* either case, a digit, the five special characters) and names of several
\* characters (function keys in either case, named keys)
BaseKeyTokens ==
    { <<"m">>, <<"M">>, <<"3">>, <<"\\">>, <<"/">>, <<"-">>, <<"=">>, <<GraveChar>>,
      <<"f","1">>, <<"F","1">>,
      <<"R","e","t","u","r","n">>, <<"s","p","a","c","e">>,
      <<"E","s","c","a","p","e">>, <<"m","i","n","u","s">>,
      <<"T","a","b">> }

NoKey == [phase |-> "none", typed |-> <<>>, token |-> <<>>, parts |-> NoParse,
          name |-> <<>>, keycode |-> 0]

KeysInit ==
    /\ \E ms \in ModSeqs(1), token \in BaseKeyTokens :
        codec = [NoKey EXCEPT !.phase = "typed",
                              !.typed = ChordText(ms, token),
                              !.token = token]
    /\ env = [pactl_present |-> TRUE, xlib_available |-> TRUE,
              devices |-> <<>>, default_source |-> ""]
    /\ audio = NoAudio
    /\ xserver = NoXServer
    /\ engine = NoEngine
    /\ app = NoApp
    /\ after_queue = <<>>
    /\ hist = NoHist
    /\ reg = NoReg

\* the text goes through _hotkey_to_parts
KeyParse ==
    /\ codec.phase = "typed"
    /\ codec' = [codec EXCEPT !.phase = "parsed",
                              !.parts = hotkey_to_parts(codec.typed)]
    /\ UNCHANGED <<reg, env, audio, xserver, engine, app, after_queue, hist>>

\* the parsed base key goes through _keysym_to_keycode
KeyResolve ==
    /\ codec.phase = "parsed" /\ codec.parts.ok
    /\ codec' = [codec EXCEPT !.phase = "resolved",
                              !.name = keysym_name(codec.parts.key),
                              !.keycode = keysym_to_keycode(codec.parts.key)]
    /\ UNCHANGED <<reg, env, audio, xserver, engine, app, after_queue, hist>>

KeysNext ==
    \/ KeyParse
    \/ KeyResolve

\* the base key of typed chords, parsed and resolved
SpecKeys == KeysInit /\ [][KeysNext]_vars

(* Properties of the base key. *)
\* the symbolic name the five special characters are translated to
SymbolicName(token) ==
    CASE token = <<"\\">> -> <<"b","a","c","k","s","l","a","s","h">>
      [] token = <<"/">> -> <<"s","l","a","s","h">>
      [] token = <<"-">> -> <<"m","i","n","u","s">>
      [] token = <<"=">> -> <<"e","q","u","a","l">>
      [] token = <<GraveChar>> -> <<"g","r","a","v","e">>
      [] OTHER -> token

\* a function key: f or F followed by digits
IsFunctionKey(token) ==
    Len(token) > 1 /\ token[1] \in {"f", "F"} /\ IsDigit(Tail(token))

\* the name a base-key token is to be resolved under
ExpectedName(token) ==
    IF Len(token) = 1 THEN SymbolicName(Lower(token))
    ELSE IF IsFunctionKey(token) THEN Upper(token)
    ELSE token

\* C33: the name a parsed chord's base key is resolved under is the token
\* in lower case if it is a single character (the five special characters
\* translated to their symbolic names), the token in upper case if it is a
\* function key, and otherwise the token unchanged
C33_BaseKeyName ==
    codec.phase = "resolved" => codec.name = ExpectedName(codec.token)

(***************************************************************************)
(* Key edges through both builds of the capture engine: the application    *)
(* of soundpad_app.py, which dispatches presses and releases, and the      *)
(* packaged application (pkg/arch-soundpad/usr/share/arch-soundpad), which *)
(* has no push-to-talk and dispatches presses only.  The two builds share  *)
(* start, stop and register; `codec` holds which build runs and whether    *)
(* the last pass of the poll loop looked the event up.                     *)
(***************************************************************************)
\* the packaged SoundpadApp._on_global_hotkey(action)
on_global_hotkey_press_only(q, action, n) ==
    IF action.kind = "__stop__"
    THEN AfterEnqueue(q, [fn |-> "stop_playback", idx |-> -1, n |-> n])
    ELSE AfterEnqueue(q, [fn |-> "play_index", idx |-> action.idx, n |-> n])

\* a plausible slip: the packaged poll loop lets releases through
loop_press_only_unfiltered(q, bindings, event) ==
    LET state == BitAnd(event.state, LoopStateMask)
    IN  [looked |-> TRUE,
         q |-> IF HasBinding(bindings, event.detail, state)
               THEN on_global_hotkey_press_only(
                        q, BindingGet(bindings, event.detail, state), event.n)
               ELSE q]

\* one event through the body of the packaged GlobalHotkeyManager._loop:
\* the queue after it, and whether the binding table was consulted
loop_press_only(q, bindings, event) ==
    IF event.type # "KeyPress" THEN [looked |-> FALSE, q |-> q]
    ELSE LET state == BitAnd(event.state, LoopStateMask)
         IN  [looked |-> TRUE,
              q |-> IF HasBinding(bindings, event.detail, state)
                    THEN on_global_hotkey_press_only(
                             q, BindingGet(bindings, event.detail, state), event.n)
                    ELSE q]

Builds == {"soundpad_app", "pkg"}

EdgesInit ==
    /\ \E build \in Builds : codec = [build |-> build, looked |-> FALSE]
    /\ env = [pactl_present |-> TRUE, xlib_available |-> TRUE,
              devices |-> <<>>, default_source |-> ""]
    /\ audio = NoAudio
    /\ \E f \in ForeignOptions : xserver = [NoXServer EXCEPT !.foreign = f]
    /\ engine = NoEngine
    /\ \E ptt \in BOOLEAN, clips \in {<<H_Ctrl1, H_None>>, <<H_Alt1, H_Alt3>>} :
        /\ codec.build = "pkg" => ~ptt
        /\ app = [NoApp EXCEPT !.phase = "ready", !.init_pending = TRUE,
                               !.push_to_talk_enabled = ptt,
                               !.clips = clips,
                               !.profiles = [name \in {"Default"} |-> clips]]
    /\ after_queue = <<>>
    /\ hist = NoHist
    /\ reg = NoReg

\* the poll thread of soundpad_app.py dispatches the event it holds
LoopDispatchBoth ==
    /\ codec.build = "soundpad_app"
    /\ LoopDispatch
    /\ UNCHANGED codec

\* the poll thread of the packaged application dispatches the event it holds
LoopDispatchPressOnly ==
    /\ codec.build = "pkg"
    /\ Len(after_queue) < MaxQueue
    /\ \E event \in xserver.taken :
        LET r == loop_press_only(after_queue, engine.bindings, event)
        IN  /\ after_queue' = r.q
            /\ codec' = [codec EXCEPT !.looked = r.looked]
            /\ xserver' = [xserver EXCEPT !.taken = @ \ {event}]
    /\ UNCHANGED <<reg, env, audio, engine, app, hist>>

EdgesNext ==
    \/ InitGlobalHotkeys
    \/ KeyDown
    \/ KeyUp
    \/ LoopTake
    \/ LoopDispatchBoth
    \/ LoopDispatchPressOnly
    \/ RunPttPress
    \/ RunPttRelease
    \/ RunStopPlayback
    \/ RunPlayIndex

\* key edges of clip, stop and push-to-talk chords through either build
SpecEdges == EdgesInit /\ [][EdgesNext]_vars

(* Properties of the key edges. *)
\* the poll thread dispatches `event` in this step
Dispatches(event) == event \in xserver.taken /\ event \notin xserver'.taken

\* C34: the dispatch of a key release queues nothing, except the
\* _ptt_release task when the released chord is bound to push-to-talk; so a
\* stop_playback or play_index task is queued by the dispatch of a key press
\* only.  In the press-only build the dispatch of a release queues nothing
\* and does not consult the binding table
C34_ReleaseOnlyForPtt ==
    [][\A event \in xserver.taken :
          (Dispatches(event) /\ event.type = "KeyRelease") =>
              /\ \/ after_queue' = after_queue
                 \/ /\ HasBinding(engine.bindings, event.detail,
                                  BitAnd(event.state, LoopStateMask))
                    /\ BindingGet(engine.bindings, event.detail,
                                  BitAnd(event.state, LoopStateMask)) = PttAction
                    /\ after_queue' = Append(after_queue,
                           [fn |-> "_ptt_release", idx |-> -1, n |-> event.n])
              /\ codec.build = "pkg" =>
                    /\ after_queue' = after_queue
                    /\ ~codec'.looked
      ]_vars

\* a clip chord or the stop chord went down and up, the poll thread has
\* dispatched both edges, and the only task queued is the one of the press
C34_Witness ==
    /\ xserver.n = 2 /\ xserver.events = <<>> /\ xserver.taken = {}
    /\ xserver.held = {}
    /\ Len(after_queue) = 1
    /\ after_queue[1].n = 1
    /\ after_queue[1].fn \in {"stop_playback", "play_index"}
    /\ hist.last_n = 0

(***************************************************************************)
(* The life cycle of the capture engine: the delayed _init_global_hotkeys, *)
(* the check box and the closing of the window, in any order.              *)
(***************************************************************************)
LifecycleInit ==
    /\ codec = NoCodec
    /\ \E xlib \in BOOLEAN :
        env = [pactl_present |-> TRUE, xlib_available |-> xlib,
               devices |-> <<>>, default_source |-> ""]
    /\ audio = NoAudio
    /\ \E f \in ForeignOptions : xserver = [NoXServer EXCEPT !.foreign = f]
    /\ engine = NoEngine
    /\ \E ptt \in BOOLEAN, clips \in {<<H_None, H_None>>, <<H_Alt1, H_Alt3>>} :
        app = [NoApp EXCEPT !.phase = "ready", !.init_pending = TRUE,
                            !.push_to_talk_enabled = ptt,
                            !.clips = clips,
                            !.profiles = [name \in {"Default"} |-> clips]]
    /\ after_queue = <<>>
    /\ hist = NoHist
    /\ reg = NoReg

LifecycleNext ==
    \/ InitGlobalHotkeys
    \/ ToggleBeforeInit
    \/ ToggleGlobalHotkeys
    \/ OnClose
    \/ LoopExit

\* the application: the capture engine started and stopped by the timer,
\* the check box and the closing of the window
SpecLifecycle == LifecycleInit /\ [][LifecycleNext]_vars

(* Properties of the engine's life cycle. *)
\* C35: in every state the application's global_hotkeys_active flag is true
\* exactly when the capture engine is Running
C35_ActiveIffRunning == app.global_hotkeys_active <=> engine.running

(* Properties of push-to-talk over time (SpecEngineFair). *)
\* no grabbed key is down and no key edge is on its way to the foreground
ChordReleased ==
    /\ xserver.held = {}
    /\ xserver.events = <<>> /\ xserver.taken = {}
    /\ after_queue = <<>>

\* C36: once push-to-talk is Talking and the chord has been released, with
\* no edge left to process, push-to-talk returns to Idle with no
\* mic-passthrough loopback loaded: it is never stuck in Talking with the
\* key up
C36_TalkingEnds ==
    (app.ptt_pressed /\ ChordReleased)
        ~> (~app.ptt_pressed /\ MicLoops(audio.modules) = {})

(***************************************************************************)
(* Push-to-talk and the mic passthrough on a machine where every control   *)
(* command exits 0, started with whatever an earlier session left loaded.  *)
(***************************************************************************)
OkExits == [list |-> TRUE, unload |-> TRUE, load |-> TRUE]
OkExits2 == [list1 |-> TRUE, load1 |-> TRUE, list2 |-> TRUE, load2 |-> TRUE]
OkHandlerExits ==
    [mic |-> OkExits2, mute |-> TRUE, sources |-> TRUE, info |-> TRUE, c |-> OkExits]

TalkInit ==
    /\ codec = NoCodec
    /\ env = [pactl_present |-> TRUE, xlib_available |-> TRUE,
              devices |-> <<"mic1", "mic2">>, default_source |-> "mic2"]
    /\ AudioInit
    /\ xserver = NoXServer
    /\ engine = NoEngine
    /\ \E source \in {"", "mic1"}, ptt \in BOOLEAN :
        app = [NoApp EXCEPT !.init_pending = TRUE,
                            !.selected_input_source = source,
                            !.push_to_talk_enabled = ptt]
    /\ after_queue = <<>>
    /\ hist = NoHist
    /\ reg = NoReg

TalkNext ==
    \/ SetupAudioRouterIn({OkHandlerExits})
    \/ InitGlobalHotkeys
    \/ ConnectSelectedInputSourceIn({OkExits})
    \/ DisconnectInputSourceIn({OkExits})
    \/ TogglePushToTalkIn({[info |-> TRUE, sources |-> TRUE, c |-> OkExits]})
    \/ OnTrigger
    \/ RunPttPressIn({OkExits})
    \/ RunPttReleaseIn({OkExits})

\* the application while every control command succeeds
SpecTalk == TalkInit /\ [][TalkNext]_vars

(* Properties of the passthrough under push-to-talk. *)
\* C37: once the audio set-up has run and while push-to-talk is enabled, a
\* mic-passthrough loopback is loaded only while push-to-talk is Talking
C37_PassthroughOnlyWhileTalking ==
    (Ready /\ app.push_to_talk_enabled /\ ~app.ptt_pressed)
        => MicLoops(audio.modules) = {}

(***************************************************************************)
(* The speakers switch, from the start of a session to its end, on a       *)
(* machine where an earlier session may have left modules loaded.          *)
(***************************************************************************)
SpeakersNext ==
    \/ SetupAudioRouter
    \/ ToggleSpeakersMute
    \/ ConnectSelectedInputSource
    \/ OnClose

\* the application: start-up, the speakers switch and the closing
SpecSpeakers == TalkInit /\ [][SpeakersNext]_vars

(* Properties of the speakers switch. *)
\* C38: once the audio set-up has run, whenever speakers_muted is true no
\* speaker-monitor loopback is loaded
C38_MutedMeansNoMonitor ==
    (app.phase # "constructed" /\ app.speakers_muted)
        => MonitorLoops(audio.modules) = {}

(* Properties of register() as a whole (SpecManager). *)
\* C39: after register() on a running engine every binding of the call is
\* either in the binding table under its own action or has its text in the
\* returned conflict list
C39_ActiveOrReported ==
    Registered
        => \A i \in 1..Len(reg.entries) :
               Active(reg.entries[i]) \/ Reported(reg.entries[i])

(***************************************************************************)
(* Clip chords pressed while the clip list is edited: the poll thread      *)
(* queues play_index(idx) and the foreground runs it later, after whatever *)
(* handler Tk ran in between.                                              *)
(***************************************************************************)
NoClipPlayed == <<"-">>

\* SoundpadApp.play_index: the clip it selects and plays (a clip is known
\* by its hotkey text here), or none for an index out of range
play_index(clips, index) ==
    IF index < 0 \/ index >= Len(clips) THEN NoClipPlayed
    ELSE clips[index + 1]

PlayInit ==
    /\ codec = NoCodec
    /\ env = [pactl_present |-> TRUE, xlib_available |-> TRUE,
              devices |-> <<>>, default_source |-> ""]
    /\ audio = NoAudio
    /\ xserver = NoXServer
    /\ engine = NoEngine
    /\ \E stream \in {<<H_Alt3, H_Alt1>>} :
        app = [NoApp EXCEPT !.phase = "ready", !.init_pending = TRUE,
                            !.clips = <<H_Alt1, H_Alt3>>,
                            !.profiles = [name \in ProfileNames |->
                                              IF name = "Default" THEN <<H_Alt1, H_Alt3>>
                                              ELSE stream]]
    /\ after_queue = <<>>
    /\ hist = NoHist
    /\ reg = NoReg

PlayNext ==
    \/ InitGlobalHotkeys
    \/ KeyDown
    \/ KeyUp
    \/ LoopTake
    \/ LoopDispatch
    \/ RunPlayIndex
    \/ RunStopPlayback
    \/ RemoveSelected
    \/ SwitchProfile

\* the application: clips played by chord while clips are removed and the
\* profile is switched
SpecPlay == PlayInit /\ [][PlayNext]_vars

(* Properties of the queued clip-play edges. *)
\* C40: while a play_index task waits in the foreground's queue, the clip it
\* is going to play stays the clip its index named when the press was
\* dispatched, or becomes none when the index no longer exists
C40_QueuedPlayKeepsClip ==
    [][after_queue' = after_queue =>
          \A i \in 1..Len(after_queue) :
              after_queue[i].fn = "play_index" =>
                  play_index(app'.clips, after_queue[i].idx)
                      \in {play_index(app.clips, after_queue[i].idx), NoClipPlayed}
      ]_vars

====
